---- MODULE Spec2Model ----
(***************************************************************************)
(* A model of sdb, the file-per-record key-value store of go-shelve:       *)
(* the sharded data directory, the metadata checkpoint protocol, the       *)
(* cache, the reader/writer lock and the background sync goroutine.        *)
(***************************************************************************)
EXTENDS Integers, Sequences, FiniteSets, TLC

----------------------------------------------------------------------------
(* Bounds of the model *)

\* mutations are only started while the generation counter stays below this
MaxGen == 4
\* largest capacity tried for the random-eviction cache
MaxCacheSize == 1
\* largest max-files-per-shard threshold tried
MaxShardFiles == 2
\* largest capacity of the cache where it can choose which entry to evict
MaxEntries == 2

(* Program constants *)

MaxKeyLength == 128
defaultDiskSectorSize == 4096
Asc == 1
Desc == -1
\* the name "_" of the sentinel shard directory
sentinelDir == <<95>>

----------------------------------------------------------------------------
(* Keys, values and file names.  Strings are sequences of byte values.     *)

KeyA == <<97>>
KeyA1 == <<97, 1>>
\* a key of the maximum length
KeyMax == [i \in 1..MaxKeyLength |-> 98]
EmptyKey == << >>
LongKey == [i \in 1..(MaxKeyLength + 1) |-> 97]

\* keys a Put accepts and can store
NormalKeys == {KeyA, KeyA1, KeyMax}
AllKeys == NormalKeys \cup {EmptyKey, LongKey}

\* a value is identified by id; size is its length in bytes
EmptyVal == [id |-> 0, size |-> 0]
SmallVal == [id |-> 1, size |-> 1]
BigVal == [id |-> 2, size |-> defaultDiskSectorSize + 1]
Values == {EmptyVal, SmallVal, BigVal}

\* Get's answer for a key without a record (a nil slice and a nil error)
Absent == [id |-> -1, size |-> 0]

\* bit j (0-based, most significant first) of the key, 0 beyond its end
KeyBit(key, j) ==
    IF j >= 8 * Len(key) THEN 0
    ELSE (key[(j \div 8) + 1] \div (2 ^ (7 - (j % 8)))) % 2

\* the i-th (0-based) 5-bit group of the key
Quantum(key, i) ==
    16 * KeyBit(key, 5 * i) + 8 * KeyBit(key, 5 * i + 1)
    + 4 * KeyBit(key, 5 * i + 2) + 2 * KeyBit(key, 5 * i + 3)
    + KeyBit(key, 5 * i + 4)

\* the base32hex alphabet "0123456789ABCDEFGHIJKLMNOPQRSTUV"
encodeHex(v) == IF v < 10 THEN 48 + v ELSE 55 + v

\* base32.HexEncoding.EncodeToString: standard padding with '=' (61)
encodeKeyPadded(key) ==
    LET nchars == (8 * Len(key) + 4) \div 5
        padded == ((Len(key) + 4) \div 5) * 8
    IN  [i \in 1..padded |->
            IF i <= nchars THEN encodeHex(Quantum(key, i - 1)) ELSE 61]

encodeKey(key) == encodeKeyPadded(key)

\* the file name of every key of the model, computed once
TokenOf == [k \in AllKeys |-> encodeKey(k)]

\* base32.HexEncoding.DecodeString: the key whose encoding is name
decodeOk(name) == \E k \in AllKeys : TokenOf[k] = name
decodeKey(name) == CHOOSE k \in AllKeys : TokenOf[k] = name

\* Go's < on strings: bytewise lexicographic, a proper prefix is smaller
StrLess(a, b) ==
    \E i \in 1..Len(b) :
        /\ \A j \in 1..(i - 1) : j <= Len(a) /\ a[j] = b[j]
        /\ (i > Len(a) \/ a[i] < b[i])
StrLE(a, b) == a = b \/ StrLess(a, b)

\* sort.Slice with names[i] < names[j] over a set of distinct names
RECURSIVE SortAsc(_)
SortAsc(S) ==
    IF S = {} THEN << >>
    ELSE LET m == CHOOSE x \in S : \A y \in S : StrLE(x, y)
         IN  <<m>> \o SortAsc(S \ {m})

Reverse(s) == [i \in 1..Len(s) |-> s[Len(s) + 1 - i]]

\* readDir: the names of a directory sorted in the direction of order
readDirSorted(S, order) ==
    IF order > Desc THEN SortAsc(S) ELSE Reverse(SortAsc(S))

----------------------------------------------------------------------------
(* State *)

VARIABLES
    disk,      \* data/: shard directory name -> (file name -> content)
    dmeta,     \* meta/meta.gob: the persisted metadata
    cfg,       \* options the DB was opened with
    closed,    \* DB.closed
    md,        \* DB.metadata
    shards,    \* DB.shards
    cache,     \* DB.cache: key -> value, for the cached keys
    w,         \* goroutine holding the writer side of DB.mu, or NoOne
    readers,   \* goroutines holding DB.mu for reading
    rwait,     \* goroutines blocked in RLock behind a writer
    pc,        \* position of every goroutine
    op,        \* the call a goroutine is executing
    loc,       \* local variables of that call
    res,       \* the result the call returns
    expect,    \* per key, the value of the last returned Put while no
               \* other mutation of the key has been called
    allOk,     \* every Put, Delete and Close since Open returned nil
    written,   \* <<key, value>> of the Puts that returned nil since Open
    stable,    \* per key, what Get returned when the write lock was last
               \* released
    muts,      \* n: the Puts and Deletes that have returned nil since the
               \* store was created; fresh: no Sync has run and the store
               \* has not been opened again
    before     \* Len, the shard index, the stored keys, the data
               \* directory, the metadata in memory and the cache when the
               \* Put or Delete in progress was called;
               \* what Items would have returned at once when the
               \* iteration in progress took its first step

\* what the callers have seen, kept for stating the properties
history == <<expect, allOk, written, stable, muts, before>>

vars == <<disk, dmeta, cfg, closed, md, shards, cache, w, readers, rwait,
          pc, op, loc, res, history>>

Worker == 0
NoOne == -1
\* the client goroutines that call the DB
Threads == {1, 2}
Procs == Threads \cup {Worker}

NoOp == [kind |-> "none", key |-> EmptyKey, val |-> Absent, order |-> Asc,
         wasClosed |-> FALSE]
NoLoc == [sid |-> 0, updated |-> FALSE, files |-> << >>, i |-> 0,
          needFilter |-> FALSE]
NoRes == [err |-> "none", val |-> Absent, out |-> << >>]
Unknown == [id |-> -2, size |-> 0]
NoBefore == [len |-> 0, shards |-> << >>, keys |-> {}, disk |-> << >>,
             items |-> NoRes, mem |-> << >>]

----------------------------------------------------------------------------
(* The file system.  A path is a shard directory of data/ plus a file      *)
(* name; the empty file name denotes the directory itself, which is what   *)
(* filepath.Join(dir, "") yields.                                          *)

NoFiles == << >>

Restrict(f, S) == IF S = {} THEN << >> ELSE [x \in S |-> f[x]]

IsDir(d, p) == p.name = << >> /\ p.dir \in DOMAIN d
FileExists(d, p) ==
    p.name # << >> /\ p.dir \in DOMAIN d /\ p.name \in DOMAIN d[p.dir]

\* fs.Stat returns no error
statOk(d, p) == IsDir(d, p) \/ FileExists(d, p)

WithFile(d, p, v) == [d EXCEPT ![p.dir] = (p.name :> v) @@ @]
WithoutFile(d, p) ==
    [d EXCEPT ![p.dir] = Restrict(@, DOMAIN @ \ {p.name})]
\* MkdirAll: an existing directory is left as it is
WithDir(d, name) == IF name \in DOMAIN d THEN d ELSE (name :> NoFiles) @@ d
WithoutDir(d, name) == Restrict(d, DOMAIN d \ {name})

\* fs.Rename of a record file into another shard directory
renameInto(d, from, to, name) ==
    LET v == d[from][name]
        removed == WithoutFile(d, [dir |-> from, name |-> name])
    IN  WithFile(removed, [dir |-> to, name |-> name], v)

\* countFiles: the regular files under data/
RECURSIVE countIn(_, _)
countIn(d, dirs) ==
    IF dirs = {} THEN 0
    ELSE LET x == CHOOSE y \in dirs : TRUE
         IN  Cardinality(DOMAIN d[x]) + countIn(d, dirs \ {x})
countFiles(d) == countIn(d, DOMAIN d)

----------------------------------------------------------------------------
(* Unsigned counters.  TotalEntries (uint64) and shard.count (uint32) are  *)
(* kept as the residue nearest to zero: -1 stands for the all-ones value   *)
(* an unsigned 0 - 1 wraps to.                                             *)

uintInc(c) == c + 1
uintDec(c) == c - 1
\* a split test that lets a shard grow one file past the threshold
countExceedsByTwo(c, max) == c < 0 \/ c > max + 1
\* int64(sh.count) > db.maxFilesPerShard, the uint32 count zero-extended
countExceeds(c, max) == c < 0 \/ c > max
\* int64(db.metadata.TotalEntries)
asInt64(c) == c

----------------------------------------------------------------------------
(* Shard index *)

\* sort.Search(len(shards), enc <= shards[j].maxKey), indices from 0
RECURSIVE searchFrom(_, _, _, _)
searchFrom(sh, enc, i, j) ==
    IF i < j
    THEN LET h == (i + j) \div 2
         IN  IF ~StrLE(enc, sh[h + 1].maxKey)
             THEN searchFrom(sh, enc, h + 1, j)
             ELSE searchFrom(sh, enc, i, h)
    ELSE i

shardForKey(sh, enc) == searchFrom(sh, enc, 0, Len(sh))

\* keyPath: ok is FALSE where db.shards[i] is out of range (a panic)
keyPath(sh, key) ==
    LET base == TokenOf[key]
        i == shardForKey(sh, base)
    IN  IF i >= Len(sh)
        THEN [ok |-> FALSE, sid |-> i, path |-> [dir |-> << >>, name |-> base]]
        ELSE [ok |-> TRUE, sid |-> i,
              path |-> [dir |-> sh[i + 1].maxKey, name |-> base]]

\* loadShards: one shard per name in data/, sorted, counted
loadShards(d) ==
    LET names == SortAsc(DOMAIN d)
    IN  [i \in 1..Len(names) |->
            [maxKey |-> names[i], count |-> Cardinality(DOMAIN d[names[i]])]]

\* an index update that takes the first file left behind as the upper
\* bound of the new shard
updateSplitShardsNextFile(sh, idx, files) ==
    LET mid == Len(files) \div 2
        newLowMax == files[mid + 1]
    IN  [i \in 1..(Len(sh) + 1) |->
            IF i <= idx THEN sh[i]
            ELSE IF i = idx + 1 THEN [maxKey |-> newLowMax, count |-> mid]
            ELSE IF i = idx + 2
                 THEN [maxKey |-> sh[idx + 1].maxKey,
                       count |-> Len(files) - mid]
            ELSE sh[i - 1]]

\* an index update that gives both halves the count of the upper one
updateSplitShardsSameCounts(sh, idx, files) ==
    LET mid == Len(files) \div 2
        newLowMax == files[mid]
    IN  [i \in 1..(Len(sh) + 1) |->
            IF i <= idx THEN sh[i]
            ELSE IF i = idx + 1
                 THEN [maxKey |-> newLowMax, count |-> Len(files) - mid]
            ELSE IF i = idx + 2
                 THEN [maxKey |-> sh[idx + 1].maxKey,
                       count |-> Len(files) - mid]
            ELSE sh[i - 1]]

\* updateSplitShards: files is the sorted listing of shard idx (from 0)
updateSplitShards(sh, idx, files) ==
    LET mid == Len(files) \div 2
        newLowMax == files[mid]
    IN  [i \in 1..(Len(sh) + 1) |->
            IF i <= idx THEN sh[i]
            ELSE IF i = idx + 1 THEN [maxKey |-> newLowMax, count |-> mid]
            ELSE IF i = idx + 2
                 THEN [maxKey |-> sh[idx + 1].maxKey, count |-> Len(files) - mid]
            ELSE sh[i - 1]]

----------------------------------------------------------------------------
(* Cache *)

NoCache == << >>

\* a Put that leaves the entry of a cached key as it is
cachePutKeepOld(size, c, key, v) ==
    IF size = 0 \/ key \in DOMAIN c THEN {c} ELSE {(key :> v) @@ c}

\* a Put that never evicts
cachePutNoEvict(size, c, key, v) ==
    IF size = 0 THEN {c} ELSE {(key :> v) @@ c}

\* Cache.Put: the caches the call can leave, by policy
cachePut(size, c, key, v) ==
    IF size <= -1 THEN {(key :> v) @@ c}
    ELSE IF size = 0 THEN {c}
    ELSE IF Cardinality(DOMAIN c) < size THEN {(key :> v) @@ c}
    ELSE {(key :> v) @@ Restrict(c, DOMAIN c \ {k}) : k \in DOMAIN c}

\* a Delete that leaves the entry in the cache
cacheDeleteKeep(c, key) == c

\* Cache.Delete
cacheDelete(c, key) == Restrict(c, DOMAIN c \ {key})

----------------------------------------------------------------------------
(* What the read operations return in the current state *)

Ok(v) == [err |-> "nil", val |-> v, out |-> << >>]
Err(e) == [err |-> e, val |-> Absent, out |-> << >>]

True == [id |-> 1, size |-> 1]
False == [id |-> 0, size |-> 0]

\* DB.Has after the closed check: cacheGet (which takes &key[0]), then Stat
hasOpen(c, sh, d, key) ==
    IF Len(key) = 0 THEN Err("panic")
    ELSE IF key \in DOMAIN c THEN Ok(True)
    ELSE LET kp == keyPath(sh, key)
         IN  IF ~kp.ok THEN Err("panic")
             ELSE IF statOk(d, kp.path) THEN Ok(True) ELSE Ok(False)

HasResult(key) ==
    IF closed THEN Err("ErrDatabaseClosed")
    ELSE hasOpen(cache, shards, disk, key)

\* DB.Get after the closed check: cacheGet, then ReadFile
getOpen(c, sh, d, key) ==
    IF Len(key) = 0 THEN Err("panic")
    ELSE IF key \in DOMAIN c THEN Ok(c[key])
    ELSE LET kp == keyPath(sh, key)
         IN  IF ~kp.ok THEN Err("panic")
             ELSE IF FileExists(d, kp.path)
                  THEN Ok(d[kp.path.dir][kp.path.name])
                  ELSE Ok(Absent)

GetResult(key) ==
    IF closed THEN Err("ErrDatabaseClosed")
    ELSE getOpen(cache, shards, disk, key)

\* DB.Len
LenResult == IF closed THEN -1 ELSE asInt64(md.total)

\* The callback of Items: its invocation number at returns ret, every other
\* one returns (true, nil).  Collect is a callback that always continues.
Collect == [at |-> 0, ret |-> "continue"]
yield(fn, n) == IF n = fn.at THEN fn.ret ELSE "continue"

\* fmt.Errorf("fn: %w", err) of streamDir, and errors.Is on its result
fnError(e) == "fn: " \o e
errorsIs(e, target) == e = target \/ e = fnError(target)

\* streamDir with handleFileWithLock as its callback, from index i on; n
\* invocations of fn have been made before, out lists the ones made here
RECURSIVE streamFrom(_, _, _, _, _, _, _, _)
streamFrom(names, i, needFilter, dir, start, asc, n, fn) ==
    IF i > Len(names) THEN [keep |-> TRUE, err |-> "nil", out |-> << >>]
    ELSE LET name == names[i]
             skip == /\ needFilter
                     /\ \/ asc /\ StrLess(name, start)
                        \/ ~asc /\ StrLess(start, name)
         IN  IF skip
             THEN streamFrom(names, i + 1, TRUE, dir, start, asc, n, fn)
             ELSE IF ~decodeOk(name)
             THEN [keep |-> FALSE, err |-> "ErrBadName", out |-> << >>]
             ELSE LET key == decodeKey(name)
                      v == IF key \in DOMAIN cache THEN cache[key]
                           ELSE disk[dir][name]
                      item == <<(<<key, v>>)>>
                      r == yield(fn, n + 1)
                  IN  IF r = "error"
                      THEN [keep |-> FALSE, err |-> fnError("ErrYield"),
                            out |-> item]
                      ELSE IF r = "stop"
                      THEN [keep |-> FALSE, err |-> "nil", out |-> item]
                      ELSE LET rest == streamFrom(names, i + 1, FALSE, dir,
                                                  start, asc, n + 1, fn)
                           IN  [keep |-> rest.keep, err |-> rest.err,
                                out |-> item \o rest.out]

streamDir(dir, start, order, n, fn) ==
    streamFrom(readDirSorted(DOMAIN disk[dir], order), 1, start # << >>,
               dir, start, order > Desc, n, fn)

\* a shard loop that goes on to the next shard after fn has returned false
RECURSIVE itemsFromIgnoreKeep(_, _, _, _, _, _, _)
itemsFromIgnoreKeep(k, stop, step, encStart, order, n, fn) ==
    IF k = stop THEN [err |-> "nil", out |-> << >>]
    ELSE IF k < 0 \/ k >= Len(shards) THEN [err |-> "panic", out |-> << >>]
    ELSE LET dir == shards[k + 1].maxKey
         IN  IF dir \notin DOMAIN disk THEN [err |-> "ErrIO", out |-> << >>]
             ELSE LET r == streamDir(dir, encStart, order, n, fn)
                  IN  IF r.err # "nil" THEN [err |-> r.err, out |-> r.out]
                      ELSE LET rest == itemsFromIgnoreKeep(k + step, stop,
                                           step, encStart, order,
                                           n + Len(r.out), fn)
                           IN  [err |-> rest.err, out |-> r.out \o rest.out]

\* the shard loop of DB.Items, k counted from 0
RECURSIVE itemsFrom(_, _, _, _, _, _, _)
itemsFrom(k, stop, step, encStart, order, n, fn) ==
    IF k = stop THEN [err |-> "nil", out |-> << >>]
    ELSE IF k < 0 \/ k >= Len(shards) THEN [err |-> "panic", out |-> << >>]
    ELSE LET dir == shards[k + 1].maxKey
         IN  IF dir \notin DOMAIN disk THEN [err |-> "ErrIO", out |-> << >>]
             ELSE LET r == streamDir(dir, encStart, order, n, fn)
                  IN  IF r.err # "nil" THEN [err |-> r.err, out |-> r.out]
                      ELSE IF ~r.keep THEN [err |-> "nil", out |-> r.out]
                      ELSE LET rest == itemsFrom(k + step, stop, step,
                                           encStart, order,
                                           n + Len(r.out), fn)
                           IN  [err |-> rest.err, out |-> r.out \o rest.out]

\* DB.Items with the callback fn; out lists the pairs handed to fn
ItemsYield(start, order, fn) ==
    IF closed THEN Err("ErrDatabaseClosed")
    ELSE LET n == Len(shards)
             asc == order = Asc
             encStart == TokenOf[start]
             idx == IF Len(start) # 0 THEN shardForKey(shards, encStart)
                    ELSE IF ~asc THEN n - 1 ELSE 0
             r == itemsFrom(idx, IF asc THEN n ELSE -1,
                            IF asc THEN 1 ELSE -1, encStart, order, 0, fn)
         IN  [err |-> r.err, val |-> Absent, out |-> r.out]

\* DB.Items with a callback that collects and always continues
ItemsResult(start, order) == ItemsYield(start, order, Collect)

\* the keys that have a record file
StoredKeys ==
    {decodeKey(n) : n \in UNION {DOMAIN disk[dir] : dir \in DOMAIN disk}}

\* what Get returns for every key, were it called on an open DB
View(c, sh, d) == [k \in NormalKeys |-> getOpen(c, sh, d, k).val]

----------------------------------------------------------------------------
(* Initial state: Open on a path that does not exist                       *)

makeMetadata == [total |-> 0, gen |-> 0, ckpt |-> 0]

\* cacheSize, maxFiles and autoSync are the options of Open; keys, vals and
\* reads are the arguments and the read operations the callers use; track
\* names the history variables that are kept
Config(cacheSize, maxFiles, autoSync, keys, vals, reads, track) ==
    [cacheSize |-> cacheSize, maxFiles |-> maxFiles, autoSync |-> autoSync,
     keys |-> keys, vals |-> vals, reads |-> reads, track |-> track]

Tracked(name) == name \in cfg.track

ReadKinds == {"Has", "Get", "Len", "Items"}

WorkerStart(c) == IF c.autoSync THEN "select" ELSE "none"

InitWith(c) ==
    /\ cfg = c
    /\ disk = (sentinelDir :> NoFiles)
    /\ dmeta = makeMetadata
    /\ md = makeMetadata
    /\ closed = FALSE
    /\ shards = <<[maxKey |-> sentinelDir, count |-> 0]>>
    /\ cache = NoCache
    /\ w = NoOne
    /\ readers = {}
    /\ rwait = {}
    /\ pc = [p \in Procs |-> IF p = Worker THEN WorkerStart(cfg) ELSE "idle"]
    /\ op = [p \in Procs |-> NoOp]
    /\ loc = [p \in Procs |-> NoLoc]
    /\ res = [p \in Procs |-> NoRes]
    /\ expect = [k \in NormalKeys |-> Unknown]
    /\ allOk = TRUE
    /\ written = {}
    /\ muts = [n |-> 0, fresh |-> TRUE]
    /\ stable = [k \in NormalKeys |-> Absent]
    /\ before = NoBefore

----------------------------------------------------------------------------
(* DB.mu, a sync.RWMutex: a writer takes the writer side, then waits for   *)
(* the readers to leave; a reader arriving behind a writer waits until     *)
(* that writer unlocks.                                                    *)

\* an Unlock that leaves the blocked readers asleep
UnlockKeepWaiters(t, next) ==
    /\ w' = NoOne
    /\ UNCHANGED <<readers, rwait>>
    /\ pc' = [pc EXCEPT ![t] = next]

\* RWMutex.Unlock by writer t, which continues at next
Unlock(t, next) ==
    /\ w' = NoOne
    /\ readers' = rwait
    /\ rwait' = {}
    /\ pc' = [p \in Procs |-> IF p = t THEN next
                              ELSE IF p \notin rwait THEN pc[p]
                              ELSE IF pc[p] = "cb_wait" THEN "cb_read"
                              ELSE "rbody"]

\* the view the writer leaves when it unlocks
Commit ==
    stable' = IF Tracked("stable") /\ w' = NoOne
              THEN View(cache', shards', disk') ELSE stable

\* RWMutex.TryLock succeeds
tryLockOk == w = NoOne /\ readers = {}

\* the call of t returns r after releasing the write lock
Finish(t, r) ==
    /\ Unlock(t, "ret")
    /\ res' = [res EXCEPT ![t] = r]
    /\ loc' = [loc EXCEPT ![t] = NoLoc]

\* a Lock that is granted while another writer holds the lock
LockBarging(t) ==
    /\ pc[t] = "lock"
    /\ w' = t
    /\ pc' = [pc EXCEPT ![t] = IF readers = {} THEN "locked" ELSE "drain"]
    /\ UNCHANGED <<disk, dmeta, cfg, closed, md, shards, cache, readers,
                   rwait, op, loc, res, history>>

\* a Lock that does not wait for the readers to leave
LockNoDrain(t) ==
    /\ pc[t] = "lock"
    /\ w = NoOne
    /\ w' = t
    /\ pc' = [pc EXCEPT ![t] = "locked"]
    /\ UNCHANGED <<disk, dmeta, cfg, closed, md, shards, cache, readers,
                   rwait, op, loc, res, history>>

\* db.mu.Lock(): take the writer side
Lock(t) ==
    /\ pc[t] = "lock"
    /\ w = NoOne
    /\ w' = t
    /\ pc' = [pc EXCEPT ![t] = IF readers = {} THEN "locked" ELSE "drain"]
    /\ UNCHANGED <<disk, dmeta, cfg, closed, md, shards, cache, readers,
                   rwait, op, loc, res, history>>

\* db.mu.Lock(): the last reader has left
Drain(t) ==
    /\ pc[t] = "drain"
    /\ readers = {}
    /\ pc' = [pc EXCEPT ![t] = "locked"]
    /\ UNCHANGED <<disk, dmeta, cfg, closed, md, shards, cache, w, readers,
                   rwait, op, loc, res, history>>

\* db.mu.RLock()
RLock(t) ==
    /\ pc[t] = "rlock"
    /\ IF w = NoOne
       THEN /\ readers' = readers \cup {t}
            /\ pc' = [pc EXCEPT ![t] = "rbody"]
            /\ UNCHANGED rwait
       ELSE /\ rwait' = rwait \cup {t}
            /\ pc' = [pc EXCEPT ![t] = "rblocked"]
            /\ UNCHANGED readers
    /\ UNCHANGED <<disk, dmeta, cfg, closed, md, shards, cache, w, op, loc,
                   res, history>>

----------------------------------------------------------------------------
(* Calls *)

Mutating(p) == op[p].kind \in {"Put", "Delete"}
InFlight == Cardinality({p \in Threads : Mutating(p)})
MayMutate == md.gen + InFlight < MaxGen

NewOp(kind, key, val, order) ==
    [kind |-> kind, key |-> key, val |-> val, order |-> order,
     wasClosed |-> closed]

Forget(k) == [x \in NormalKeys |-> IF x = k THEN Unknown ELSE expect[x]]

\* what a caller can see of the store when it makes a call
Snapshot ==
    [len |-> LenResult, shards |-> shards, keys |-> StoredKeys,
     disk |-> IF Tracked("disk") THEN disk ELSE << >>, items |-> NoRes,
     mem |-> IF Tracked("mem") THEN [md |-> md, cache |-> cache]
             ELSE << >>]

CallPut(t) ==
    /\ pc[t] = "idle"
    /\ MayMutate
    /\ \E k \in cfg.keys, v \in cfg.vals :
          /\ op' = [op EXCEPT ![t] = NewOp("Put", k, v, Asc)]
          /\ expect' = IF Tracked("expect") THEN Forget(k) ELSE expect
    /\ pc' = [pc EXCEPT ![t] = "prep"]
    /\ before' = IF Tracked("before") THEN Snapshot ELSE before
    /\ UNCHANGED <<disk, dmeta, cfg, closed, md, shards, cache, w, readers,
                   rwait, loc, res, allOk, written, stable, muts>>

CallDelete(t) ==
    /\ pc[t] = "idle"
    /\ MayMutate
    /\ \E k \in cfg.keys :
          /\ op' = [op EXCEPT ![t] = NewOp("Delete", k, Absent, Asc)]
          /\ expect' = IF Tracked("expect") THEN Forget(k) ELSE expect
    /\ pc' = [pc EXCEPT ![t] = "prep"]
    /\ before' = IF Tracked("before") THEN Snapshot ELSE before
    /\ UNCHANGED <<disk, dmeta, cfg, closed, md, shards, cache, w, readers,
                   rwait, loc, res, allOk, written, stable, muts>>

CallRead(t) ==
    /\ pc[t] = "idle"
    /\ \/ \E kind \in cfg.reads \cap {"Has", "Get"}, k \in cfg.keys :
             op' = [op EXCEPT ![t] = NewOp(kind, k, Absent, Asc)]
       \/ /\ "Len" \in cfg.reads
          /\ op' = [op EXCEPT ![t] = NewOp("Len", EmptyKey, Absent, Asc)]
       \/ /\ "Items" \in cfg.reads
          /\ \E o \in {Asc, Desc} :
                op' = [op EXCEPT ![t] = NewOp("Items", EmptyKey, Absent, o)]
    /\ pc' = [pc EXCEPT ![t] = "rlock"]
    /\ UNCHANGED <<disk, dmeta, cfg, closed, md, shards, cache, w, readers,
                   rwait, loc, res, history>>

CallSync(t) ==
    /\ pc[t] = "idle"
    /\ op' = [op EXCEPT ![t] = NewOp("Sync", EmptyKey, Absent, Asc)]
    /\ pc' = [pc EXCEPT ![t] = "lock"]
    /\ UNCHANGED <<disk, dmeta, cfg, closed, md, shards, cache, w, readers,
                   rwait, loc, res, history>>

CallClose(t) ==
    /\ pc[t] = "idle"
    /\ op' = [op EXCEPT ![t] = NewOp("Close", EmptyKey, Absent, Asc)]
    /\ pc' = [pc EXCEPT ![t] = "lock"]
    /\ UNCHANGED <<disk, dmeta, cfg, closed, md, shards, cache, w, readers,
                   rwait, loc, res, history>>

\* the call returns to its caller
Return(t) ==
    /\ pc[t] = "ret"
    /\ pc' = [pc EXCEPT ![t] = IF t = Worker THEN "select" ELSE "idle"]
    /\ expect' =
          IF /\ Tracked("expect")
             /\ op[t].kind = "Put"
             /\ res[t].err = "nil"
             /\ op[t].key \in NormalKeys
             /\ \A p \in Threads \ {t} :
                   ~(Mutating(p) /\ op[p].key = op[t].key)
          THEN [expect EXCEPT ![op[t].key] = op[t].val]
          ELSE expect
    /\ allOk' = (allOk /\ (/\ Tracked("allOk")
                            /\ op[t].kind \in {"Put", "Delete", "Close"}
                            => res[t].err = "nil"))
    /\ written' = IF /\ Tracked("written")
                     /\ op[t].kind = "Put" /\ res[t].err = "nil"
                  THEN written \cup {<<op[t].key, op[t].val>>} ELSE written
    /\ op' = [op EXCEPT ![t] = NoOp]
    /\ res' = [res EXCEPT ![t] = NoRes]
    /\ before' = IF (Tracked("before") /\ Mutating(t))
                     \/ (Tracked("items") /\ op[t].kind = "Items")
                  THEN NoBefore ELSE before
    /\ muts' = IF /\ Tracked("muts")
                  /\ Mutating(t) /\ res[t].err = "nil"
                  /\ muts.fresh
               THEN [muts EXCEPT !.n = @ + 1] ELSE muts
    /\ UNCHANGED <<disk, dmeta, cfg, closed, md, shards, cache, w, readers,
                   rwait, loc, stable>>

----------------------------------------------------------------------------
(* Read operations: Has, Get, Len, Items under the read lock               *)

readResult(o) ==
    IF o.kind = "Has" THEN HasResult(o.key)
    ELSE IF o.kind = "Get" THEN GetResult(o.key)
    ELSE IF o.kind = "Len" THEN Ok([id |-> LenResult, size |-> 0])
    ELSE ItemsResult(o.key, o.order)

\* a read that caches the value a Get has read from the disk
ReadBodyCacheAside(t) ==
    /\ pc[t] = "rbody"
    /\ res' = [res EXCEPT ![t] = readResult(op[t])]
    /\ cache' \in IF op[t].kind = "Get" /\ readResult(op[t]).val # Absent
                  THEN cachePut(cfg.cacheSize, cache, op[t].key,
                                readResult(op[t]).val)
                  ELSE {cache}
    /\ readers' = readers \ {t}
    /\ pc' = [pc EXCEPT ![t] = "ret"]
    /\ UNCHANGED <<disk, dmeta, cfg, closed, md, shards, w, rwait, op, loc,
                   history>>

ReadBody(t) ==
    /\ pc[t] = "rbody"
    /\ res' = [res EXCEPT ![t] = readResult(op[t])]
    /\ readers' = readers \ {t}
    /\ pc' = [pc EXCEPT ![t] = "ret"]
    /\ UNCHANGED <<disk, dmeta, cfg, closed, md, shards, cache, w, rwait,
                   op, loc, history>>

----------------------------------------------------------------------------
(* DB.Items step by step: the closed check, one ReadDir per shard, one     *)
(* handleFileWithLock per file, all between RLock and the deferred RUnlock *)

ItemsSteps == {"items_dir", "items_file"}

\* the deferred RUnlock, then Items returns
ItemsReturn(t, e) ==
    /\ res' = [res EXCEPT ![t].err = e]
    /\ readers' = readers \ {t}
    /\ loc' = [loc EXCEPT ![t] = NoLoc]
    /\ pc' = [pc EXCEPT ![t] = "ret"]

\* an Items that gives up the read lock after the closed check
ItemsBeginRelease(t) ==
    /\ pc[t] = "rbody"
    /\ op[t].kind = "Items"
    /\ before' = IF Tracked("items")
                  THEN [NoBefore EXCEPT
                           !.items = ItemsResult(op[t].key, op[t].order)]
                  ELSE before
    /\ IF closed THEN ItemsReturn(t, "ErrDatabaseClosed")
       ELSE /\ loc' = [loc EXCEPT ![t] =
                          [NoLoc EXCEPT
                              !.sid = IF Len(op[t].key) # 0
                                      THEN shardForKey(shards,
                                                       TokenOf[op[t].key])
                                      ELSE IF op[t].order # Asc
                                      THEN Len(shards) - 1 ELSE 0]]
            /\ res' = [res EXCEPT ![t] = Ok(Absent)]
            /\ pc' = [pc EXCEPT ![t] = "items_dir"]
            /\ readers' = readers \ {t}
    /\ UNCHANGED <<disk, dmeta, cfg, closed, md, shards, cache, w, rwait, op,
                   expect, allOk, written, stable, muts>>

\* the closed check and the index of the first shard
ItemsBegin(t) ==
    /\ pc[t] = "rbody"
    /\ op[t].kind = "Items"
    /\ before' = IF Tracked("items")
                  THEN [NoBefore EXCEPT
                           !.items = ItemsResult(op[t].key, op[t].order)]
                  ELSE before
    /\ IF closed THEN ItemsReturn(t, "ErrDatabaseClosed")
       ELSE /\ loc' = [loc EXCEPT ![t] =
                          [NoLoc EXCEPT
                              !.sid = IF Len(op[t].key) # 0
                                      THEN shardForKey(shards,
                                                       TokenOf[op[t].key])
                                      ELSE IF op[t].order # Asc
                                      THEN Len(shards) - 1 ELSE 0]]
            /\ res' = [res EXCEPT ![t] = Ok(Absent)]
            /\ pc' = [pc EXCEPT ![t] = "items_dir"]
            /\ UNCHANGED readers
    /\ UNCHANGED <<disk, dmeta, cfg, closed, md, shards, cache, w, rwait, op,
                   expect, allOk, written, stable, muts>>

\* the loop condition, then streamDir lists the directory of the shard
ItemsDir(t) ==
    /\ pc[t] = "items_dir"
    /\ LET k == loc[t].sid
           stop == IF op[t].order = Asc THEN Len(shards) ELSE -1
       IN  IF k = stop THEN ItemsReturn(t, "nil")
           ELSE IF k < 0 \/ k >= Len(shards) THEN ItemsReturn(t, "panic")
           ELSE IF shards[k + 1].maxKey \notin DOMAIN disk
           THEN ItemsReturn(t, "ErrIO")
           ELSE /\ loc' = [loc EXCEPT
                              ![t].files =
                                  readDirSorted(
                                      DOMAIN disk[shards[k + 1].maxKey],
                                      op[t].order),
                              ![t].i = 1,
                              ![t].needFilter = op[t].key # << >>]
                /\ pc' = [pc EXCEPT ![t] = "items_file"]
                /\ UNCHANGED <<readers, res>>
    /\ UNCHANGED <<disk, dmeta, cfg, closed, md, shards, cache, w, rwait, op,
                   history>>

\* an iteration that passes over a name it cannot decode
ItemsFileSkipBad(t) ==
    /\ pc[t] = "items_file"
    /\ LET i == loc[t].i
           files == loc[t].files
           asc == op[t].order > Desc
           start == TokenOf[op[t].key]
       IN  IF i > Len(files)
           THEN /\ loc' = [loc EXCEPT
                              ![t].sid = @ + (IF op[t].order = Asc
                                              THEN 1 ELSE -1),
                              ![t].files = << >>, ![t].i = 0,
                              ![t].needFilter = FALSE]
                /\ pc' = [pc EXCEPT ![t] = "items_dir"]
                /\ UNCHANGED <<readers, res>>
           ELSE LET name == files[i]
                    dir == shards[loc[t].sid + 1].maxKey
                    skip == /\ loc[t].needFilter
                            /\ \/ asc /\ StrLess(name, start)
                               \/ ~asc /\ StrLess(start, name)
                    key == decodeKey(name)
                    gone == /\ key \notin DOMAIN cache
                            /\ ~FileExists(disk, [dir |-> dir, name |-> name])
                    v == IF key \in DOMAIN cache THEN cache[key]
                         ELSE disk[dir][name]
                IN  IF skip
                    THEN /\ loc' = [loc EXCEPT ![t].i = i + 1]
                         /\ UNCHANGED <<pc, readers, res>>
                    ELSE IF ~decodeOk(name)
                    THEN /\ loc' = [loc EXCEPT ![t].i = i + 1,
                                               ![t].needFilter = FALSE]
                         /\ UNCHANGED <<pc, readers, res>>
                    ELSE /\ res' = IF gone THEN res
                                   ELSE [res EXCEPT ![t].out =
                                            Append(@, <<key, v>>)]
                         /\ loc' = [loc EXCEPT ![t].i = i + 1,
                                               ![t].needFilter = FALSE]
                         /\ UNCHANGED <<pc, readers>>
    /\ UNCHANGED <<disk, dmeta, cfg, closed, md, shards, cache, w, rwait, op,
                   history>>

\* the next name of the listing: the start filter, then
\* handleFileWithLock, which decodes the name, reads the cache or the file
\* and calls fn; a file that is gone is skipped
ItemsFile(t) ==
    /\ pc[t] = "items_file"
    /\ LET i == loc[t].i
           files == loc[t].files
           asc == op[t].order > Desc
           start == TokenOf[op[t].key]
       IN  IF i > Len(files)
           THEN /\ loc' = [loc EXCEPT
                              ![t].sid = @ + (IF op[t].order = Asc
                                              THEN 1 ELSE -1),
                              ![t].files = << >>, ![t].i = 0,
                              ![t].needFilter = FALSE]
                /\ pc' = [pc EXCEPT ![t] = "items_dir"]
                /\ UNCHANGED <<readers, res>>
           ELSE LET name == files[i]
                    dir == shards[loc[t].sid + 1].maxKey
                    skip == /\ loc[t].needFilter
                            /\ \/ asc /\ StrLess(name, start)
                               \/ ~asc /\ StrLess(start, name)
                    key == decodeKey(name)
                    gone == /\ key \notin DOMAIN cache
                            /\ ~FileExists(disk, [dir |-> dir, name |-> name])
                    v == IF key \in DOMAIN cache THEN cache[key]
                         ELSE disk[dir][name]
                IN  IF skip
                    THEN /\ loc' = [loc EXCEPT ![t].i = i + 1]
                         /\ UNCHANGED <<pc, readers, res>>
                    ELSE IF ~decodeOk(name)
                    THEN ItemsReturn(t, "ErrBadName")
                    ELSE /\ res' = IF gone THEN res
                                   ELSE [res EXCEPT ![t].out =
                                            Append(@, <<key, v>>)]
                         /\ loc' = [loc EXCEPT ![t].i = i + 1,
                                               ![t].needFilter = FALSE]
                         /\ UNCHANGED <<pc, readers>>
    /\ UNCHANGED <<disk, dmeta, cfg, closed, md, shards, cache, w, rwait, op,
                   history>>

ItemsStep(t) == ItemsBegin(t) \/ ItemsDir(t) \/ ItemsFile(t)

----------------------------------------------------------------------------
(* A callback of Items that calls Has, Get or Len on the same DB: the      *)
(* goroutine takes db.mu.RLock() again while Items holds it                *)

\* fn is about to be called with a record, and calls a read operation
CallbackCall(t) ==
    /\ pc[t] = "items_file"
    /\ loc[t].i <= Len(loc[t].files)
    /\ decodeOk(loc[t].files[loc[t].i])
    /\ pc' = [pc EXCEPT ![t] = "cb_rlock"]
    /\ UNCHANGED <<disk, dmeta, cfg, closed, md, shards, cache, w, readers,
                   rwait, op, loc, res, history>>

\* db.mu.RLock() inside the callback: granted at once unless a writer has
\* called Lock, in which case it blocks until that writer unlocks
CallbackRLock(t) ==
    /\ pc[t] = "cb_rlock"
    /\ IF w = NoOne
       THEN /\ pc' = [pc EXCEPT ![t] = "cb_read"]
            /\ UNCHANGED rwait
       ELSE /\ rwait' = rwait \cup {t}
            /\ pc' = [pc EXCEPT ![t] = "cb_wait"]
    /\ UNCHANGED <<disk, dmeta, cfg, closed, md, shards, cache, w, readers,
                   op, loc, res, history>>

\* the read inside the callback, its RUnlock, and the return into Items,
\* which still holds the read lock
CallbackRead(t) ==
    /\ pc[t] = "cb_read"
    /\ pc' = [pc EXCEPT ![t] = "items_file"]
    /\ UNCHANGED <<disk, dmeta, cfg, closed, md, shards, cache, w, readers,
                   rwait, op, loc, res, history>>

CallbackStep(t) == CallbackCall(t) \/ CallbackRLock(t) \/ CallbackRead(t)

\* the body of Has, Get or Len
PointRead(t) == op[t].kind # "Items" /\ ReadBody(t)

----------------------------------------------------------------------------
(* Metadata checkpoint protocol *)

\* prepareForMutation, "Mark as loaded"
dirtyMark(m) == [m EXCEPT !.gen = m.ckpt + 1]

\* syncInternal, "Mark as consistent"
checkpointed(m) == [m EXCEPT !.ckpt = m.gen]

\* prepareForMutation, then the key length check of Put
Prep(t) ==
    /\ pc[t] = "prep"
    /\ LET got == tryLockOk
           mark == got /\ ~closed /\ md.gen = md.ckpt
           tooLarge == op[t].kind = "Put" /\ Len(op[t].key) > MaxKeyLength
       IN  /\ md' = IF mark THEN dirtyMark(md) ELSE md
           /\ dmeta' = IF mark THEN dirtyMark(md) ELSE dmeta
           /\ IF got /\ closed
              THEN /\ pc' = [pc EXCEPT ![t] = "ret"]
                   /\ res' = [res EXCEPT ![t] = Err("ErrDatabaseClosed")]
              ELSE IF tooLarge
              THEN /\ pc' = [pc EXCEPT ![t] = "ret"]
                   /\ res' = [res EXCEPT ![t] = Err("ErrKeyTooLarge")]
              ELSE /\ pc' = [pc EXCEPT ![t] = "lock"]
                   /\ UNCHANGED res
    /\ UNCHANGED <<disk, cfg, closed, shards, cache, w, readers, rwait, op,
                   loc, history>>

----------------------------------------------------------------------------
(* DB.Put under the write lock *)

PathOf(t) == [dir |-> shards[loc[t].sid + 1].maxKey,
              name |-> TokenOf[op[t].key]]

\* atomicWriter.WriteFile writes the target in place
direct(v) == v.size <= defaultDiskSectorSize

\* closed check, keyPath and the stat of putPath
PutStat(t) ==
    /\ pc[t] = "locked"
    /\ op[t].kind = "Put"
    /\ LET kp == keyPath(shards, op[t].key)
       IN  IF closed THEN Finish(t, Err("ErrDatabaseClosed"))
           ELSE IF ~kp.ok THEN Finish(t, Err("panic"))
           ELSE /\ loc' = [loc EXCEPT ![t] =
                              [NoLoc EXCEPT !.sid = kp.sid,
                                            !.updated = statOk(disk, kp.path)]]
                /\ pc' = [pc EXCEPT ![t] = "open"]
                /\ UNCHANGED <<w, readers, rwait, res>>
    /\ UNCHANGED <<disk, dmeta, cfg, closed, md, shards, cache, op, expect,
                   allOk, written, before, muts>>
    /\ Commit

\* _writeFile: OpenFile with O_CREATE|O_TRUNC, and O_EXCL for a new record;
\* a value larger than a sector is written to a temporary file instead
PutOpen(t) ==
    /\ pc[t] = "open"
    /\ LET p == PathOf(t)
           excl == ~loc[t].updated
       IN  IF ~direct(op[t].val)
           THEN /\ pc' = [pc EXCEPT ![t] = "write"]
                /\ UNCHANGED <<disk, w, readers, rwait, res, loc>>
           ELSE IF IsDir(disk, p) \/ p.dir \notin DOMAIN disk
           THEN Finish(t, Err("ErrIO")) /\ UNCHANGED disk
           ELSE IF excl /\ FileExists(disk, p)
           THEN Finish(t, Err("ErrExist")) /\ UNCHANGED disk
           ELSE /\ disk' = WithFile(disk, p, EmptyVal)
                /\ pc' = [pc EXCEPT ![t] = "write"]
                /\ UNCHANGED <<w, readers, rwait, res, loc>>
    /\ UNCHANGED <<dmeta, cfg, closed, md, shards, cache, op, expect, allOk,
                   written, before, muts>>
    /\ Commit

\* _writeFile: Write and Close
PutWrite(t) ==
    /\ pc[t] = "write"
    /\ IF direct(op[t].val)
       THEN /\ disk' = WithFile(disk, PathOf(t), op[t].val)
            /\ pc' = [pc EXCEPT ![t] = "count"]
       ELSE /\ pc' = [pc EXCEPT ![t] = "rename"]
            /\ UNCHANGED disk
    /\ UNCHANGED <<dmeta, cfg, closed, md, shards, cache, w, readers, rwait,
                   op, loc, res, history>>

\* renameFile(tmpPath, path)
PutRename(t) ==
    /\ pc[t] = "rename"
    /\ LET p == PathOf(t)
       IN  IF IsDir(disk, p) \/ p.dir \notin DOMAIN disk
           THEN Finish(t, Err("ErrIO")) /\ UNCHANGED disk
           ELSE /\ disk' = WithFile(disk, p, op[t].val)
                /\ pc' = [pc EXCEPT ![t] = "count"]
                /\ UNCHANGED <<w, readers, rwait, res, loc>>
    /\ UNCHANGED <<dmeta, cfg, closed, md, shards, cache, op, expect, allOk,
                   written, before, muts>>
    /\ Commit

\* a Put that counts every record it writes as a new one
PutCountAlways(t) ==
    /\ pc[t] = "count"
    /\ LET i == loc[t].sid + 1
           sh == [shards EXCEPT ![i].count = uintInc(@)]
       IN  /\ shards' = sh
           /\ md' = [md EXCEPT !.total = uintInc(@), !.gen = @ + 1]
           /\ pc' = [pc EXCEPT ![t] =
                        IF countExceeds(sh[i].count, cfg.maxFiles)
                        THEN "split" ELSE "cache"]
    /\ UNCHANGED <<disk, dmeta, cfg, closed, cache, w, readers, rwait, op,
                   loc, res, history>>

\* the counts and the generation after putPath
PutCount(t) ==
    /\ pc[t] = "count"
    /\ LET i == loc[t].sid + 1
           sh == IF loc[t].updated THEN shards
                 ELSE [shards EXCEPT ![i].count = uintInc(@)]
       IN  /\ shards' = sh
           /\ md' = [md EXCEPT
                        !.total = IF loc[t].updated THEN @ ELSE uintInc(@),
                        !.gen = @ + 1]
           /\ pc' = [pc EXCEPT ![t] =
                        IF countExceeds(sh[i].count, cfg.maxFiles)
                        THEN "split" ELSE "cache"]
    /\ UNCHANGED <<disk, dmeta, cfg, closed, cache, w, readers, rwait, op,
                   loc, res, history>>

\* splitShard: list the old directory, create the new one
SplitMkdir(t) ==
    /\ pc[t] = "split"
    /\ LET oldDir == shards[loc[t].sid + 1].maxKey
       IN  IF oldDir \notin DOMAIN disk
           THEN Finish(t, Err("ErrIO")) /\ UNCHANGED disk
           ELSE LET files == SortAsc(DOMAIN disk[oldDir])
                    mid == Len(files) \div 2
                IN  IF mid = 0
                    THEN Finish(t, Err("panic")) /\ UNCHANGED disk
                    ELSE /\ disk' = WithDir(disk, files[mid])
                         /\ loc' = [loc EXCEPT ![t].files = files, ![t].i = 1]
                         /\ pc' = [pc EXCEPT ![t] = "split_rename"]
                         /\ UNCHANGED <<w, readers, rwait, res>>
    /\ UNCHANGED <<dmeta, cfg, closed, md, shards, cache, op, expect, allOk,
                   written, before, muts>>
    /\ Commit

\* splitShard: move one lower-half file
SplitRename(t) ==
    /\ pc[t] = "split_rename"
    /\ LET files == loc[t].files
           mid == Len(files) \div 2
           oldDir == shards[loc[t].sid + 1].maxKey
           i == loc[t].i
       IN  /\ disk' = renameInto(disk, oldDir, files[mid], files[i])
           /\ loc' = [loc EXCEPT ![t].i = i + 1]
           /\ pc' = [pc EXCEPT ![t] =
                        IF i = mid THEN "split_update" ELSE "split_rename"]
    /\ UNCHANGED <<dmeta, cfg, closed, md, shards, cache, w, readers, rwait,
                   op, res, history>>

\* splitShard: updateSplitShards
SplitUpdate(t) ==
    /\ pc[t] = "split_update"
    /\ shards' = updateSplitShards(shards, loc[t].sid, loc[t].files)
    /\ pc' = [pc EXCEPT ![t] = "cache"]
    /\ UNCHANGED <<disk, dmeta, cfg, closed, md, cache, w, readers, rwait,
                   op, loc, res, history>>

\* "Cache aside", unlock and return
PutCache(t) ==
    /\ pc[t] = "cache"
    /\ cache' \in cachePut(cfg.cacheSize, cache, op[t].key, op[t].val)
    /\ Finish(t, Ok(Absent))
    /\ UNCHANGED <<disk, dmeta, cfg, closed, md, shards, op, expect, allOk,
                   written, before, muts>>
    /\ Commit

----------------------------------------------------------------------------
(* DB.Delete, DB.Sync, DB.Close under the write lock *)

Delete(t) ==
    /\ pc[t] = "locked"
    /\ op[t].kind = "Delete"
    /\ LET kp == keyPath(shards, op[t].key)
           p == kp.path
           \* os.Remove removes a file or an empty directory
           notEmpty == IsDir(disk, p) /\ DOMAIN disk[p.dir] # {}
           deleted == statOk(disk, p)
           i == kp.sid + 1
       IN  IF closed
           THEN Finish(t, Err("ErrDatabaseClosed"))
                /\ UNCHANGED <<disk, md, shards, cache>>
           ELSE IF ~kp.ok
           THEN Finish(t, Err("panic"))
                /\ UNCHANGED <<disk, md, shards, cache>>
           ELSE IF notEmpty
           THEN Finish(t, Err("ErrIO"))
                /\ UNCHANGED <<disk, md, shards, cache>>
           ELSE /\ disk' = IF IsDir(disk, p) THEN WithoutDir(disk, p.dir)
                           ELSE IF FileExists(disk, p) THEN WithoutFile(disk, p)
                           ELSE disk
                /\ shards' = IF deleted
                             THEN [shards EXCEPT ![i].count = uintDec(@)]
                             ELSE shards
                /\ md' = [md EXCEPT
                             !.total = IF deleted THEN uintDec(@) ELSE @,
                             !.gen = @ + 1]
                /\ cache' = cacheDelete(cache, op[t].key)
                /\ Finish(t, Ok(Absent))
    /\ UNCHANGED <<dmeta, cfg, closed, op, expect, allOk, written, before,
                   muts>>
    /\ Commit

Sync(t) ==
    /\ pc[t] = "locked"
    /\ op[t].kind = "Sync"
    /\ IF closed
       THEN Finish(t, Err("ErrDatabaseClosed"))
            /\ UNCHANGED <<md, dmeta, muts>>
       ELSE /\ md' = checkpointed(md)
            /\ dmeta' = checkpointed(md)
            /\ muts' = IF Tracked("muts") THEN [muts EXCEPT !.fresh = FALSE]
                       ELSE muts
            /\ Finish(t, Ok(Absent))
    /\ UNCHANGED <<disk, cfg, closed, shards, cache, op, expect, allOk,
                   written, before>>
    /\ Commit

\* Close: mark closed and close(db.done)
CloseMark(t) ==
    /\ pc[t] = "locked"
    /\ op[t].kind = "Close"
    /\ IF closed
       THEN Finish(t, Ok(Absent)) /\ UNCHANGED closed
       ELSE /\ closed' = TRUE
            /\ pc' = [pc EXCEPT ![t] = "close_wait"]
            /\ UNCHANGED <<w, readers, rwait, res, loc>>
    /\ UNCHANGED <<disk, dmeta, cfg, md, shards, cache, op, expect, allOk,
                   written, before, muts>>
    /\ Commit

\* Close: db.wg.Wait() returns, then the final sync
CloseWait(t) ==
    /\ pc[t] = "close_wait"
    /\ pc[Worker] \in {"exited", "none"}
    /\ md' = checkpointed(md)
    /\ dmeta' = checkpointed(md)
    /\ Finish(t, Ok(Absent))
    /\ UNCHANGED <<disk, cfg, closed, shards, cache, op, expect, allOk,
                   written, before, muts>>
    /\ Commit

----------------------------------------------------------------------------
(* The steps of a call at which a system call returns an error other than  *)
(* ErrNotExist                                                             *)

\* metadataStore.Save returns an error in prepareForMutation, Sync or Close:
\* the metadata in memory has been assigned, OpenFile has failed and the
\* file is as it was
SaveFails(t) ==
    /\ \/ /\ pc[t] = "prep"
          /\ tryLockOk /\ ~closed /\ md.gen = md.ckpt
          /\ md' = dirtyMark(md)
          /\ pc' = [pc EXCEPT ![t] = "ret"]
          /\ res' = [res EXCEPT ![t] = Err("ErrSave")]
          /\ UNCHANGED <<w, readers, rwait, loc, stable>>
       \/ /\ pc[t] = "locked" /\ op[t].kind = "Sync" /\ ~closed
          /\ md' = checkpointed(md)
          /\ Finish(t, Err("ErrSave"))
          /\ Commit
       \/ /\ pc[t] = "close_wait"
          /\ pc[Worker] \in {"exited", "none"}
          /\ md' = checkpointed(md)
          /\ Finish(t, Err("ErrSave"))
          /\ Commit
    /\ UNCHANGED <<disk, dmeta, cfg, closed, shards, cache, op, expect,
                   allOk, written, before, muts>>

\* putPath: Stat returns an error
StatFails(t) ==
    /\ pc[t] = "locked"
    /\ op[t].kind = "Put"
    /\ ~closed
    /\ keyPath(shards, op[t].key).ok
    /\ Finish(t, Err("ErrIO"))
    /\ UNCHANGED <<disk, dmeta, cfg, closed, md, shards, cache, op, expect,
                   allOk, written, before, muts>>
    /\ Commit

\* atomicWriter.WriteFile returns an error: OpenFile fails; Write fails on
\* the file just opened; Close fails after the Write; Rename fails
WriteFileFails(t) ==
    /\ pc[t] \in {"open", "write", "rename"}
    /\ \/ disk' = disk
       \/ /\ pc[t] = "write" /\ direct(op[t].val)
          /\ disk' = WithFile(disk, PathOf(t), op[t].val)
    /\ Finish(t, Err("ErrIO"))
    /\ UNCHANGED <<dmeta, cfg, closed, md, shards, cache, op, expect, allOk,
                   written, before, muts>>
    /\ Commit

\* splitShard returns an error: readdirnames or MkdirAll fails, or the
\* Rename of the next file
SplitFails(t) ==
    /\ pc[t] \in {"split", "split_rename"}
    /\ Finish(t, Err("ErrIO"))
    /\ UNCHANGED <<disk, dmeta, cfg, closed, md, shards, cache, op, expect,
                   allOk, written, before, muts>>
    /\ Commit

\* Delete: Remove returns an error
RemoveFails(t) ==
    /\ pc[t] = "locked"
    /\ op[t].kind = "Delete"
    /\ ~closed
    /\ keyPath(shards, op[t].key).ok
    /\ Finish(t, Err("ErrIO"))
    /\ UNCHANGED <<disk, dmeta, cfg, closed, md, shards, cache, op, expect,
                   allOk, written, before, muts>>
    /\ Commit

Fault(t) ==
    \/ SaveFails(t) \/ StatFails(t) \/ WriteFileFails(t) \/ SplitFails(t)
    \/ RemoveFails(t)

----------------------------------------------------------------------------
(* syncMetadata, the background goroutine *)

\* case <-ticker.C: call db.Sync()
Tick ==
    /\ pc[Worker] = "select"
    /\ op' = [op EXCEPT ![Worker] = NewOp("Sync", EmptyKey, Absent, Asc)]
    /\ pc' = [pc EXCEPT ![Worker] = "lock"]
    /\ UNCHANGED <<disk, dmeta, cfg, closed, md, shards, cache, w, readers,
                   rwait, loc, res, history>>

\* case <-db.done: return, which runs db.wg.Done()
WorkerExit ==
    /\ pc[Worker] = "select"
    /\ closed
    /\ pc' = [pc EXCEPT ![Worker] = "exited"]
    /\ UNCHANGED <<disk, dmeta, cfg, closed, md, shards, cache, w, readers,
                   rwait, op, loc, res, history>>

----------------------------------------------------------------------------
(* atomicWriter.WriteFile called on its own, with any excl argument; its   *)
(* steps are the ones it takes inside a Put, where excl is !updated        *)

CallWriteFile(t) ==
    /\ pc[t] = "idle"
    /\ \E k \in cfg.keys, v \in cfg.vals, excl \in BOOLEAN :
          /\ op' = [op EXCEPT ![t] = NewOp("WriteFile", k, v, Asc)]
          /\ loc' = [loc EXCEPT ![t] = [NoLoc EXCEPT !.updated = ~excl]]
    /\ pc' = [pc EXCEPT ![t] = "open"]
    /\ before' = IF Tracked("before") THEN Snapshot ELSE before
    /\ UNCHANGED <<disk, dmeta, cfg, closed, md, shards, cache, w, readers,
                   rwait, res, expect, allOk, written, stable, muts>>

\* WriteFile returns nil
WriteFileDone(t) ==
    /\ pc[t] = "count"
    /\ op[t].kind = "WriteFile"
    /\ Finish(t, Ok(Absent))
    /\ UNCHANGED <<disk, dmeta, cfg, closed, md, shards, cache, op, history>>

WriteFileStep(t) ==
    \/ CallWriteFile(t) \/ PutOpen(t) \/ PutWrite(t) \/ PutRename(t)
    \/ WriteFileDone(t)

----------------------------------------------------------------------------
(* A file that is not a record, put into a shard directory from outside    *)

\* "C4Z=====": 'Z' is not in the base32hex alphabet
BadName == <<67, 52, 90, 61, 61, 61, 61, 61>>

ForeignFile ==
    /\ \A dir \in DOMAIN disk : BadName \notin DOMAIN disk[dir]
    /\ \E dir \in DOMAIN disk :
          disk' = WithFile(disk, [dir |-> dir, name |-> BadName], SmallVal)
    /\ UNCHANGED <<dmeta, cfg, closed, md, shards, cache, w, readers, rwait,
                   pc, op, loc, res, history>>

----------------------------------------------------------------------------
(* Open on an existing store *)

\* initializeDatabase: load metadata and shards, recount if dirty
recovered(m, d) ==
    IF m.gen # m.ckpt
    THEN [m EXCEPT !.total = countFiles(d), !.ckpt = m.gen]
    ELSE m

OpenExisting ==
    /\ md' = recovered(dmeta, disk)
    /\ dmeta' = recovered(dmeta, disk)
    /\ shards' = loadShards(disk)
    /\ closed' = FALSE
    /\ cache' = NoCache
    /\ w' = NoOne
    /\ readers' = {}
    /\ rwait' = {}
    /\ pc' = [p \in Procs |-> IF p = Worker THEN WorkerStart(cfg) ELSE "idle"]
    /\ op' = [p \in Procs |-> NoOp]
    /\ loc' = [p \in Procs |-> NoLoc]
    /\ res' = [p \in Procs |-> NoRes]
    /\ expect' = [k \in NormalKeys |-> Unknown]
    /\ allOk' = TRUE
    /\ written' = {}
    /\ muts' = IF Tracked("muts") THEN [muts EXCEPT !.fresh = FALSE]
               ELSE muts
    /\ stable' = IF Tracked("stable")
                 THEN View(NoCache, loadShards(disk), disk) ELSE stable
    /\ before' = NoBefore
    /\ UNCHANGED <<disk, cfg>>

\* Open after Close, once every call has returned
Reopen ==
    /\ closed
    /\ \A t \in Threads : pc[t] = "idle"
    /\ pc[Worker] \in {"exited", "none"}
    /\ OpenExisting

\* the process stops at any point and the store is opened again
CrashReopen ==
    /\ OpenExisting

----------------------------------------------------------------------------
(* Specifications *)

PutStep(t) ==
    \/ CallPut(t) \/ Prep(t) \/ PutStat(t) \/ PutOpen(t) \/ PutWrite(t)
    \/ PutRename(t) \/ PutCount(t) \/ PutCache(t)

SplitStep(t) == SplitMkdir(t) \/ SplitRename(t) \/ SplitUpdate(t)

DeleteStep(t) == CallDelete(t) \/ Delete(t)

ReadStep(t) == CallRead(t) \/ RLock(t) \/ ReadBody(t)

CloseStep(t) == CallClose(t) \/ CloseMark(t) \/ CloseWait(t)

SyncStep(t) == CallSync(t) \/ Sync(t)

\* One caller: keys of every length from 1 byte on, every value, every cache
\* policy, splits, Close and reopening.
SeqConfigs ==
    {Config(size, max, FALSE, AllKeys \ {EmptyKey}, Values, {},
            {"expect", "allOk", "before"}) :
        size \in -1..MaxCacheSize, max \in 1..MaxShardFiles}

Init == \E c \in SeqConfigs : InitWith(c)

Next ==
    \/ PutStep(1) \/ SplitStep(1) \/ DeleteStep(1) \/ SyncStep(1)
    \/ CloseStep(1) \/ Lock(1) \/ Return(1)
    \/ Reopen

Spec == Init /\ [][Next]_vars

\* One caller that also uses the zero-length key.
EmptyKeyConfigs ==
    {Config(size, max, FALSE, AllKeys, Values, {},
            {"expect", "allOk", "before"}) :
        size \in -1..MaxCacheSize, max \in 1..MaxShardFiles}

InitEmptyKey == \E c \in EmptyKeyConfigs : InitWith(c)

EmptyKeySpec == InitEmptyKey /\ [][Next]_vars

\* a Put of a value that fits a disk sector
DirectPutStep(t) ==
    \/ CallPut(t) \/ Prep(t) \/ PutStat(t) \/ PutOpen(t) \/ PutWrite(t)
    \/ PutCount(t) \/ PutCache(t)

LockStep(t) == Lock(t) \/ Drain(t)

\* the background goroutine while the DB stays open
WorkerStep ==
    \/ Tick \/ Lock(Worker) \/ Drain(Worker) \/ Sync(Worker)
    \/ Return(Worker)

\* Concurrent callers that Put and read, two keys that share a shard until
\* it splits, with and without the cache.
ConcConfigs ==
    {Config(size, 1, FALSE, {KeyA, KeyA1}, {SmallVal, BigVal},
            {"Has", "Get", "Items"}, {"written", "stable"}) :
        size \in {-1, 0}}

InitConc == \E c \in ConcConfigs : InitWith(c)

NextConc ==
    \E t \in Threads :
        \/ PutStep(t) \/ SplitStep(t) \/ ReadStep(t) \/ LockStep(t)
        \/ Return(t)

ConcSpec == InitConc /\ [][NextConc]_vars

\* Concurrent callers of every operation, Close included, with a key that is
\* too long.
ClosedConfigs ==
    {Config(-1, MaxShardFiles, FALSE, {KeyA, LongKey}, {SmallVal},
            ReadKinds, {})}

InitClosed == \E c \in ClosedConfigs : InitWith(c)

NextClosed ==
    \E t \in Threads :
        \/ DirectPutStep(t) \/ DeleteStep(t) \/ ReadStep(t) \/ SyncStep(t)
        \/ CloseStep(t) \/ LockStep(t) \/ Return(t)

ClosedSpec == InitClosed /\ [][NextClosed]_vars

\* One caller, shards that split, and the process stopping at any point.
CrashConfigs ==
    {Config(0, 1, FALSE, {KeyA, KeyA1}, {SmallVal, BigVal}, {}, {})}

InitCrash == \E c \in CrashConfigs : InitWith(c)

NextCrash ==
    \/ PutStep(1) \/ SplitStep(1) \/ DeleteStep(1) \/ Lock(1) \/ Return(1)
    \/ CrashReopen

CrashSpec == InitCrash /\ [][NextCrash]_vars

\* A writer, readers, explicit Sync calls and the background goroutine, and
\* the process stopping at any point.
CrashConcConfigs ==
    {Config(0, MaxShardFiles, TRUE, {KeyA}, {SmallVal}, {"Get"}, {})}

InitCrashConc == \E c \in CrashConcConfigs : InitWith(c)

NextCrashConc ==
    \/ DirectPutStep(1) \/ DeleteStep(1) \/ SyncStep(1) \/ LockStep(1)
    \/ Return(1)
    \/ \E t \in Threads \ {1} : ReadStep(t) \/ Return(t)
    \/ WorkerStep
    \/ CrashReopen

CrashConcSpec == InitCrashConc /\ [][NextCrashConc]_vars

\* Concurrent callers of every operation but Close.  Every goroutine that
\* can take a step eventually takes one;
\* sync.Mutex hands the lock to a goroutine that keeps waiting for it
\* (starvation mode), so a Lock that is possible again and again succeeds.
LiveConfigs ==
    {Config(0, MaxShardFiles, FALSE, {KeyA}, {SmallVal}, ReadKinds, {})}

InitLive == \E c \in LiveConfigs : InitWith(c)

\* the steps of a call once it has been made
Running(t) ==
    \/ Prep(t) \/ PutStat(t) \/ PutOpen(t) \/ PutWrite(t) \/ PutCount(t)
    \/ PutCache(t) \/ Delete(t) \/ RLock(t) \/ ReadBody(t) \/ Sync(t)
    \/ Drain(t) \/ Return(t)

NextLive ==
    \/ \E t \in Threads :
          \/ DirectPutStep(t) \/ DeleteStep(t) \/ ReadStep(t) \/ SyncStep(t)
          \/ LockStep(t) \/ Return(t)

Fairness == \A t \in Procs : WF_vars(Running(t)) /\ SF_vars(Lock(t))

LiveSpec == InitLive /\ [][NextLive]_vars /\ Fairness

\* One caller that Puts and then closes the DB while the background
\* goroutine runs and the other callers Get.
CloseLiveConfigs ==
    {Config(0, MaxShardFiles, TRUE, {KeyA}, {SmallVal}, {"Get"}, {})}

InitCloseLive == \E c \in CloseLiveConfigs : InitWith(c)

NextCloseLive ==
    \/ DirectPutStep(1) \/ CloseStep(1) \/ LockStep(1) \/ Return(1)
    \/ (\E t \in Threads \ {1} : ReadStep(t) \/ Return(t))
    \/ WorkerStep \/ WorkerExit

CloseFairness ==
    /\ Fairness
    /\ WF_vars(CloseMark(1) \/ CloseWait(1))
    /\ WF_vars(WorkerExit)

CloseLiveSpec ==
    InitCloseLive /\ [][NextCloseLive]_vars /\ CloseFairness

\* One caller that iterates step by step while another one Puts, Deletes,
\* Syncs and closes: two keys that share a shard until it splits, with and
\* without the cache.
NextIter ==
    \/ CallRead(1) \/ RLock(1) \/ ItemsStep(1) \/ Return(1)
    \/ PutStep(2) \/ SplitStep(2) \/ DeleteStep(2) \/ SyncStep(2)
    \/ CloseStep(2) \/ LockStep(2) \/ Return(2)

IterSpec ==
    /\ \E size \in {-1, 0} :
          InitWith(Config(size, 1, FALSE, {KeyA, KeyA1}, {SmallVal, BigVal},
                          {"Items"}, {"items"}))
    /\ [][NextIter]_vars

\* One caller and three keys, with every split threshold from 0 on.
NextSplit ==
    \/ PutStep(1) \/ SplitStep(1) \/ DeleteStep(1) \/ Lock(1) \/ Return(1)

SplitSpec ==
    /\ \E max \in 0..MaxShardFiles :
          InitWith(Config(0, max, FALSE, {KeyA, KeyA1, KeyMax},
                          {SmallVal, BigVal}, {}, {"before", "disk"}))
    /\ [][NextSplit]_vars

\* One caller of atomicWriter.WriteFile on two paths of one directory,
\* payloads of 0, 1 and 4097 bytes, and the process stopping at any point.
NextWriter == WriteFileStep(1) \/ Return(1) \/ CrashReopen

WriterSpec ==
    /\ InitWith(Config(0, MaxShardFiles, FALSE, {KeyA, KeyA1}, Values, {},
                       {"before", "disk"}))
    /\ [][NextWriter]_vars

\* One caller that Puts, Deletes, Syncs and closes while another one Gets,
\* with the successful mutations counted, and reopening.
NextGen ==
    \/ DirectPutStep(1) \/ DeleteStep(1) \/ SyncStep(1) \/ CloseStep(1)
    \/ LockStep(1) \/ Return(1)
    \/ (\E t \in Threads \ {1} : ReadStep(t) \/ Return(t))
    \/ Reopen

GenSpec ==
    /\ InitWith(Config(0, MaxShardFiles, FALSE, {KeyA}, {SmallVal}, {"Get"},
                       {"muts"}))
    /\ [][NextGen]_vars

\* One caller that Puts, Deletes and reads with every read operation, Items
\* step by step, under every cache policy, over shards that split, and a
\* foreign file that appears in a shard directory.
NextRead ==
    \/ PutStep(1) \/ SplitStep(1) \/ DeleteStep(1) \/ Lock(1)
    \/ CallRead(1) \/ RLock(1) \/ PointRead(1) \/ ItemsStep(1)
    \/ Return(1)
    \/ ForeignFile

ReadSpec ==
    /\ \E size \in -1..MaxCacheSize, max \in 1..MaxShardFiles :
          InitWith(Config(size, max, FALSE, {KeyA, KeyA1, KeyMax},
                          {SmallVal, BigVal}, ReadKinds, {}))
    /\ [][NextRead]_vars

\* One caller that Puts, Deletes, Syncs and closes, two keys that share a
\* shard until it splits, values written directly and through a temporary
\* file, the unlimited cache; any system call may fail.
NextFault ==
    \/ PutStep(1) \/ SplitStep(1) \/ DeleteStep(1) \/ SyncStep(1)
    \/ CloseStep(1) \/ Lock(1) \/ Return(1)
    \/ Fault(1)

FaultSpec ==
    /\ InitWith(Config(-1, 1, FALSE, {KeyA, KeyA1}, {SmallVal, BigVal}, {},
                       {"before", "disk", "mem"}))
    /\ [][NextFault]_vars

\* One caller that iterates with a callback that reads the DB while another
\* one Puts and Syncs; every goroutine that can take a step eventually
\* takes one.
CallbackRunning(t) ==
    \/ Prep(t) \/ PutStat(t) \/ PutOpen(t) \/ PutWrite(t) \/ PutCount(t)
    \/ PutCache(t) \/ Sync(t) \/ Drain(t) \/ RLock(t) \/ ItemsStep(t)
    \/ CallbackStep(t) \/ Return(t)

NextCallback ==
    \/ CallRead(1) \/ RLock(1) \/ ItemsStep(1) \/ CallbackStep(1)
    \/ Return(1)
    \/ DirectPutStep(2) \/ SyncStep(2) \/ LockStep(2) \/ Return(2)

CallbackSpec ==
    /\ InitWith(Config(0, MaxShardFiles, FALSE, {KeyA}, {SmallVal},
                       {"Items"}, {}))
    /\ [][NextCallback]_vars
    /\ \A t \in Threads : WF_vars(CallbackRunning(t)) /\ SF_vars(Lock(t))

\* One caller that Puts, Deletes and reads with every read operation, three
\* keys over shards that split, under every cache policy with capacities up
\* to MaxEntries.
NextCached ==
    \/ PutStep(1) \/ SplitStep(1) \/ DeleteStep(1) \/ Lock(1)
    \/ CallRead(1) \/ RLock(1) \/ PointRead(1) \/ ItemsStep(1)
    \/ Return(1)

CachedSpec ==
    /\ \E size \in -1..MaxEntries, max \in 1..MaxShardFiles :
          InitWith(Config(size, max, FALSE, {KeyA, KeyA1, KeyMax},
                          {SmallVal, BigVal}, ReadKinds, {}))
    /\ [][NextCached]_vars

----------------------------------------------------------------------------
(* A cache built by NewCache and called directly, as cache_test.go does;   *)
(* op[t] is the last call, before.keys and before.len the keys and the     *)
(* size of the cache when that call was made                               *)

\* Cache.Get
cacheLookup(c, key) == IF key \in DOMAIN c THEN Ok(c[key]) ELSE Err("miss")

CacheCall(t, kind, key, v, r) ==
    /\ pc[t] = "idle"
    /\ op' = [op EXCEPT ![t] = NewOp(kind, key, v, Asc)]
    /\ res' = [res EXCEPT ![t] = r]
    /\ before' = [NoBefore EXCEPT !.keys = DOMAIN cache,
                                  !.len = Cardinality(DOMAIN cache)]
    /\ UNCHANGED <<disk, dmeta, cfg, closed, md, shards, w, readers, rwait,
                   pc, loc, expect, allOk, written, stable, muts>>

CachePut(t) ==
    \E k \in cfg.keys, v \in cfg.vals :
        /\ cache' \in cachePut(cfg.cacheSize, cache, k, v)
        /\ CacheCall(t, "CachePut", k, v, Ok(Absent))

CacheGet(t) ==
    \E k \in cfg.keys :
        /\ cache' = cache
        /\ CacheCall(t, "CacheGet", k, Absent, cacheLookup(cache, k))

CacheDelete(t) ==
    \E k \in cfg.keys :
        /\ cache' = cacheDelete(cache, k)
        /\ CacheCall(t, "CacheDelete", k, Absent, Ok(Absent))

\* Every cache policy, capacities up to MaxEntries, three keys, two values.
NextCache == CachePut(1) \/ CacheGet(1) \/ CacheDelete(1)

CacheSpec ==
    /\ \E size \in -1..MaxEntries :
          InitWith(Config(size, MaxShardFiles, FALSE, {KeyA, KeyA1, KeyMax},
                          {SmallVal, BigVal}, {}, {}))
    /\ [][NextCache]_vars

----------------------------------------------------------------------------
(* Properties *)

\* no goroutine is inside a write-locked section, so a reader can run
Quiet == w = NoOne

\* C1: once Put(k, v) has returned success, Get(k) returns v and Has(k)
\* returns true until the next Put or Delete of k is called.
C1_RoundTrip ==
    \A k \in NormalKeys :
        (expect[k] # Unknown /\ ~closed /\ Quiet)
            => /\ GetResult(k) = Ok(expect[k])
               /\ HasResult(k) = Ok(True)

\* a record that was moved into a split-off shard is read back from disk
C1_Witness ==
    \E k \in NormalKeys :
        /\ expect[k] = BigVal /\ ~closed /\ Quiet
        /\ Len(shards) > 1 /\ keyPath(shards, k).sid = 0
        /\ k \notin DOMAIN cache
        /\ GetResult(k) = Ok(BigVal)

\* C4: after successful Puts and Deletes and a successful Close, the reopened
\* DB returns the same Get and Has for every key, the same Len, and has the
\* same shard index (upper bounds and counts) as before Close.
C4_Persistence ==
    [][(Reopen /\ allOk) =>
          /\ \A k \in AllKeys :
                /\ getOpen(cache', shards', disk', k)
                      = getOpen(cache, shards, disk, k)
                /\ hasOpen(cache', shards', disk', k)
                      = hasOpen(cache, shards, disk, k)
          /\ LenResult' = asInt64(md.total)
          /\ shards' = shards]_vars

\* the keys in the order Items handed them to its callback
ItemKeys(r) == [i \in 1..Len(r.out) |-> r.out[i][1]]

\* C10: Items(nil, Asc) visits every stored key exactly once in ascending
\* raw-byte order of the keys, and Items(nil, Desc) visits them in exactly
\* the reverse sequence.
C10_IterationOrder ==
    (~closed /\ Quiet) =>
        LET up == ItemsResult(EmptyKey, Asc)
            down == ItemsResult(EmptyKey, Desc)
        IN  /\ up.err = "nil"
            /\ down.err = "nil"
            /\ ItemKeys(up) = SortAsc(StoredKeys)
            /\ ItemKeys(down) = Reverse(ItemKeys(up))

\* C5: a call to Close on an open DB eventually returns, whatever the
\* background goroutine is doing.
C5_CloseTerminates ==
    \A t \in Threads :
        (op[t].kind = "Close" /\ pc[t] = "lock") ~> (pc[t] = "ret")

\* C6: every started Has, Get, Put, Delete, Len, Sync or Items eventually
\* returns.
C6_NoDeadlock ==
    \A t \in Threads : (pc[t] # "idle") ~> (pc[t] = "idle")

\* the positions of a goroutine inside a write-locked section
WriteSteps ==
    {"locked", "open", "write", "rename", "count", "split", "split_rename",
     "split_update", "cache", "close_wait"}

\* a reader is blocked behind a writer that is in the middle of a Put
C6_Witness ==
    \E t, u \in Threads : pc[t] = "rblocked" /\ pc[u] = "write"

\* the answer a call made on a closed DB must give
ClosedAnswer(t) ==
    CASE op[t].kind = "Len" -> res[t].val.id = -1
      [] op[t].kind = "Close" -> res[t].err = "nil"
      [] OTHER -> res[t].err = "ErrDatabaseClosed"

C7_Answers ==
    \A t \in Threads : (pc[t] = "ret" /\ op[t].wasClosed) => ClosedAnswer(t)

\* once the first Close has finished, nothing stored changes
C7_NoChange ==
    (closed /\ \A t \in Threads : pc[t] # "close_wait")
        => (disk' = disk /\ dmeta' = dmeta /\ cache' = cache)

\* C7: every call made after Close has marked the DB closed returns
\* ErrDatabaseClosed (Len returns -1, Close returns nil), for every key and
\* in every interleaving, and changes no record file, persisted metadata or
\* cache entry.
C7_ClosedAbsorbing == []C7_Answers /\ [][C7_NoChange]_vars

\* what a read of key k may see: the value committed when the write lock
\* was last released, or the value of a Put that is in progress
Allowed(k) ==
    {stable[k]} \cup
    {op[u].val : u \in {x \in Threads : /\ pc[x] # "idle"
                                         /\ op[x].kind = "Put"
                                         /\ op[x].key = k}}

AsHas(v) == IF v = Absent THEN False ELSE True

\* the read of t, which is just being done, sees only allowed values
Observed(t) ==
    LET r == res'[t]
    IN  CASE op[t].kind = "Get" ->
                r.err = "nil" /\ r.val \in Allowed(op[t].key)
          [] op[t].kind = "Has" ->
                /\ r.err = "nil"
                /\ r.val \in {AsHas(v) : v \in Allowed(op[t].key)}
          [] op[t].kind = "Items" ->
                /\ r.err = "nil"
                /\ \A i \in 1..Len(r.out) :
                      r.out[i][2] \in Allowed(r.out[i][1]) \ {Absent}
                /\ \A k \in NormalKeys :
                      Absent \notin Allowed(k)
                          => \E i \in 1..Len(r.out) : r.out[i][1] = k
          [] OTHER -> TRUE

\* C8: a Get, Has or Items that runs concurrently with a Put(k, v2) on a key
\* whose prior state is v1 or absent observes exactly v1 (or absence) or
\* exactly v2, never an empty or truncated value.
C8_AtomicVisibility ==
    [][\A t \in Threads :
          (pc[t] = "rbody" /\ pc'[t] = "ret") => Observed(t)]_vars

\* a Get has returned the prior value while a Put of another value to the
\* same key waits for that reader to leave
C8_Witness ==
    \E t, u \in Threads :
        /\ pc[t] = "ret" /\ op[t].kind = "Get"
        /\ res[t].val \in cfg.vals
        /\ pc[u] = "drain" /\ op[u].kind = "Put"
        /\ op[u].key = op[t].key /\ op[u].val # res[t].val

WrittenKeys == {p[1] : p \in written}
WrittenValues(k) == {p[2] : p \in {q \in written : q[1] = k}}

\* C9: concurrent Puts of the same or overlapping keys all return success,
\* no two of them are inside the stat-then-create sequence at once, and once
\* they have returned Get(k) is one of the written values and Len() is the
\* number of distinct keys written.
C9_ConcurrentPuts ==
    /\ \A t \in Threads :
          (pc[t] = "ret" /\ op[t].kind = "Put") => res[t].err = "nil"
    /\ \A t, u \in Threads :
          (pc[t] \in WriteSteps /\ pc[u] \in WriteSteps) => t = u
    /\ (\A t \in Threads : pc[t] = "idle") =>
          /\ LenResult = Cardinality(WrittenKeys)
          /\ \A k \in WrittenKeys : GetResult(k).val \in WrittenValues(k)

\* two Puts of different values to one key were in progress together and
\* both have succeeded
C9_Witness ==
    /\ \A t \in Threads :
          /\ pc[t] = "ret" /\ op[t].kind = "Put" /\ op[t].key = KeyA
          /\ res[t].err = "nil"
    /\ op[1].val # op[2].val
    /\ LenResult = 1

\* C2: if the process stops at any point without a Close, the next Open
\* succeeds and Len() is the number of record files under data/.
C2_CrashRecovery ==
    [][CrashReopen => LenResult' = countFiles(disk')]_vars

\* every record file is found by Get and Has under its key and lies in the
\* shard the index assigns to its name, and Items reports every stored key
\* exactly once
C3_Sound ==
    /\ \A dir \in DOMAIN disk : \A n \in DOMAIN disk[dir] :
          LET k == decodeKey(n)
              kp == keyPath(shards, k)
          IN  /\ kp.ok /\ kp.path.dir = dir
              /\ getOpen(cache, shards, disk, k) = Ok(disk[dir][n])
              /\ hasOpen(cache, shards, disk, k) = Ok(True)
    /\ LET up == ItemsResult(EmptyKey, Asc)
       IN  /\ up.err = "nil"
           /\ Len(up.out) = Cardinality(StoredKeys)
           /\ {up.out[i][1] : i \in 1..Len(up.out)} = StoredKeys

\* C3: if the process stops at any point of any operation, a shard split
\* included, then after reopening no record is lost or duplicated.
C3_NoLoss == [][CrashReopen => C3_Sound']_vars

\* the start keys of a seek: every key but the zero-length one
SeekStarts == AllKeys \ {EmptyKey}

\* C11: for any non-empty start key, stored or not, and any shard layout,
\* Items(start, Asc) yields exactly the stored keys >= start in ascending
\* order of the keys and Items(start, Desc) exactly the stored keys <= start
\* in descending order; nothing is yielded for a start beyond the last key.
C11_Seek ==
    (~closed /\ Quiet) =>
        \A s \in SeekStarts :
            LET up == ItemsResult(s, Asc)
                down == ItemsResult(s, Desc)
            IN  /\ up.err = "nil"
                /\ down.err = "nil"
                /\ ItemKeys(up) = SortAsc({k \in StoredKeys : StrLE(s, k)})
                /\ ItemKeys(down)
                      = Reverse(SortAsc({k \in StoredKeys : StrLE(k, s)}))

\* the callbacks that end the iteration: at invocation at, by false or by
\* an error
Stoppers ==
    {[at |-> a, ret |-> r] :
        a \in 1..Cardinality(NormalKeys), r \in {"stop", "error"}}

\* Items with the callback fn makes exactly the invocations a collecting
\* callback sees (full is what Items returns for that one) up to invocation
\* fn.at, and returns as fn.ret demands
StopsAt(full, start, order, fn) ==
    LET r == ItemsYield(start, order, fn)
    IN  IF fn.at > Len(full.out) THEN r = full
        ELSE /\ r.out = SubSeq(full.out, 1, fn.at)
             /\ fn.ret = "stop" => r.err = "nil"
             /\ fn.ret = "error" => /\ r.err # "nil"
                                    /\ errorsIs(r.err, "ErrYield")

\* C12: when the callback of Items returns continue = false, Items returns
\* nil and the callback is not invoked again, whatever remains in the
\* current or in later shards; when it returns an error, Items stops at once
\* and returns an error that wraps the error of the callback.
C12_StopProtocol ==
    (~closed /\ \A t \in Threads : pc[t] = "idle") =>
        \A o \in {Asc, Desc} :
            LET full == ItemsResult(EmptyKey, o)
            IN  \A fn \in Stoppers : StopsAt(full, EmptyKey, o, fn)

\* the callback stops at the first record of a shard that holds another
\* record, with a further shard still to visit
C12_Witness ==
    /\ ~closed /\ \A t \in Threads : pc[t] = "idle"
    /\ Len(shards) > 1
    /\ \A i \in 1..Len(shards) : shards[i].maxKey \in DOMAIN disk
    /\ Cardinality(DOMAIN disk[sentinelDir]) > 1
    /\ Cardinality(DOMAIN disk[shards[1].maxKey]) > 0
    /\ Len(ItemsYield(EmptyKey, Desc, [at |-> 1, ret |-> "stop"]).out) = 1

\* the shard of the index sh that owns key k
Owner(sh, k) == sh[keyPath(sh, k).sid + 1]

\* C13: for every key k already stored, Put(k, v2) succeeds, afterwards
\* Get(k) = v2, and Len(), the owning shard's count and the set of stored
\* keys are the same as before the Put.
C13_Overwrite ==
    \A t \in Threads :
        (/\ pc[t] = "ret" /\ op[t].kind = "Put" /\ ~op[t].wasClosed
         /\ op[t].key \in before.keys)
            => /\ res[t].err = "nil"
               /\ GetResult(op[t].key) = Ok(op[t].val)
               /\ LenResult = before.len
               /\ Owner(shards, op[t].key) = Owner(before.shards, op[t].key)
               /\ StoredKeys = before.keys

\* a record in a split-off shard has been overwritten with a value that is
\* written through a temporary file
C13_Witness ==
    \E t \in Threads :
        /\ pc[t] = "ret" /\ op[t].kind = "Put" /\ res[t].err = "nil"
        /\ op[t].key \in before.keys
        /\ op[t].val = BigVal
        /\ Len(shards) > 1 /\ keyPath(shards, op[t].key).sid = 0
        /\ op[t].key \notin DOMAIN cache

\* what the Delete step of t, taken on an open DB, must leave behind
Deleted(t) ==
    LET k == op[t].key
    IN  /\ res'[t].err = "nil"
        /\ k \notin DOMAIN cache'
        /\ \A j \in AllKeys \ {k} :
              getOpen(cache', shards', disk', j)
                 = getOpen(cache, shards, disk, j)
        /\ IF k \in StoredKeys
           THEN /\ getOpen(cache', shards', disk', k) = Ok(Absent)
                /\ hasOpen(cache', shards', disk', k) = Ok(False)
                /\ LenResult' = LenResult - 1
                /\ Owner(shards', k).count = Owner(shards, k).count - 1
           ELSE /\ LenResult' = LenResult
                /\ shards' = shards

\* C14: Delete(k) of a stored key returns nil, after which Get(k) is absent,
\* Has(k) is false and Len() and the owning shard's count are each one less;
\* Delete(k) of a key that is not stored returns nil and leaves Len(), every
\* shard count and every other record unchanged; in both cases the cache
\* holds no entry for k afterwards.
C14_Delete ==
    [][\A t \in Threads : (Delete(t) /\ ~closed) => Deleted(t)]_vars

\* C15: whenever no operation is in progress on an open DB, Len() is the
\* number of record files under data/ and each shard's count is the number
\* of files in that shard's directory, also after a clean Close and reopen.
C15_CountInvariant ==
    (~closed /\ \A t \in Threads : pc[t] = "idle") =>
        /\ LenResult = countFiles(disk)
        /\ \A i \in 1..Len(shards) :
              /\ shards[i].maxKey \in DOMAIN disk
              /\ shards[i].count = Cardinality(DOMAIN disk[shards[i].maxKey])

\* C16: the zero-length key is a legal key: on an open DB Put(empty key, v)
\* returns nil, afterwards Get(empty key) returns v, Has(empty key) returns
\* true and Len() counts the record; on a store that does not contain it,
\* Has and Get of the empty key return false and absent without failing.
C16_EmptyKey ==
    /\ \A t \in Threads :
          (/\ pc[t] = "ret" /\ op[t].kind = "Put" /\ ~op[t].wasClosed
           /\ op[t].key = EmptyKey)
              => /\ res[t].err = "nil"
                 /\ GetResult(EmptyKey) = Ok(op[t].val)
                 /\ HasResult(EmptyKey) = Ok(True)
                 /\ LenResult = Cardinality(before.keys \cup {EmptyKey})
    /\ (/\ ~closed /\ \A t \in Threads : pc[t] = "idle"
        /\ countFiles(disk) = 0)
          => /\ GetResult(EmptyKey) = Ok(Absent)
             /\ HasResult(EmptyKey) = Ok(False)

\* C17: on an open DB Put returns ErrKeyTooLarge exactly when the key is
\* longer than 128 bytes; a key of exactly 128 bytes is accepted and stored,
\* and a rejected Put creates no record file and leaves Len() unchanged.
C17_KeyLengthLimit ==
    \A t \in Threads :
        (pc[t] = "ret" /\ op[t].kind = "Put" /\ ~op[t].wasClosed) =>
            /\ res[t].err = "ErrKeyTooLarge" <=> Len(op[t].key) > 128
            /\ Len(op[t].key) = 128 =>
                  /\ res[t].err = "nil"
                  /\ op[t].key \in StoredKeys
            /\ res[t].err = "ErrKeyTooLarge" =>
                  /\ StoredKeys = before.keys
                  /\ countFiles(disk) = Cardinality(before.keys)
                  /\ LenResult = before.len

\* C18: the key encoding preserves order: for any two keys a, b of at most
\* 128 bytes, a < b in raw-byte lexicographic order if and only if
\* encodeKey(a) < encodeKey(b) in string order, encodeKey being the encoding
\* that names the record files.
C18_OrderPreserved ==
    \A a, b \in StoredKeys :
        StrLess(a, b) <=> StrLess(TokenOf[a], TokenOf[b])

\* the record files of data/ as <<shard directory, file name>>
RecordFiles ==
    UNION {{<<dir, n>> : n \in DOMAIN disk[dir]} : dir \in DOMAIN disk}

\* C19: after any sequence of Put, Delete and shard splits, every record
\* file with token t lies in the directory of the shard whose upper bound is
\* the least one >= t, the directory shardForKey(t) selects, so that Get, Has
\* and Delete look for it where it is.
C19_ShardPlacement ==
    (\A t \in Threads : pc[t] = "idle") =>
        \A f \in RecordFiles :
            LET i == shardForKey(shards, f[2])
            IN  /\ i < Len(shards)
                /\ shards[i + 1].maxKey = f[1]
                /\ StrLE(f[2], shards[i + 1].maxKey)
                /\ i > 0 => StrLess(shards[i].maxKey, f[2])

\* two splits have left three shards, each holding a record
C19_Witness ==
    /\ \A t \in Threads : pc[t] = "idle"
    /\ Len(shards) = 3
    /\ \A i \in 1..3 : /\ shards[i].maxKey \in DOMAIN disk
                        /\ DOMAIN disk[shards[i].maxKey] # {}

\* C20: in every reachable state the shard sequence is non-empty, its upper
\* bounds are strictly increasing, and its last element is the sentinel
\* shard "_", whose name is greater than every key token; so shardForKey
\* returns a valid index for every token.
C20_ShardIndexShape ==
    /\ Len(shards) > 0
    /\ \A i \in 1..(Len(shards) - 1) :
          StrLess(shards[i].maxKey, shards[i + 1].maxKey)
    /\ shards[Len(shards)].maxKey = sentinelDir
    /\ \A k \in AllKeys :
          /\ StrLess(TokenOf[k], sentinelDir)
          /\ shardForKey(shards, TokenOf[k]) \in 0..(Len(shards) - 1)

PreSplit(t) == WithFile(before.disk, PathOf(t), op[t].val)

\* the files of f[a..b] with their contents in directory dir of d
Part(d, dir, f, a, b) == [x \in {f[j] : j \in a..b} |-> d[dir][x]]

\* C22: the split of shard i, whose directory holds the n >= 2 files
\* f[1..n] in sorted order, with mid = n div 2: a new shard with upper bound
\* f[mid] and count mid is at index i and holds exactly f[1..mid]; the
\* original shard follows it with its upper bound, count n - mid and exactly
\* f[mid+1..n]; every other shard, every other directory, every content and
\* the number of record files are as before.
C22_SplitStep ==
    [][\A t \in Threads :
          SplitUpdate(t) =>
             LET pre == PreSplit(t)
                 i == loc[t].sid + 1
                 old == shards[i].maxKey
                 f == SortAsc(DOMAIN pre[old])
                 n == Len(f)
                 mid == n \div 2
             IN  /\ n >= 2
                 /\ Len(shards') = Len(shards) + 1
                 /\ shards'[i] = [maxKey |-> f[mid], count |-> mid]
                 /\ shards'[i + 1] = [maxKey |-> old, count |-> n - mid]
                 /\ \A j \in 1..Len(shards) :
                       /\ j < i => shards'[j] = shards[j]
                       /\ j > i => shards'[j + 1] = shards[j]
                 /\ DOMAIN disk' = DOMAIN pre \cup {f[mid]}
                 /\ f[mid] \notin DOMAIN pre
                 /\ disk'[f[mid]] = Part(pre, old, f, 1, mid)
                 /\ disk'[old] = Part(pre, old, f, mid + 1, n)
                 /\ \A dir \in DOMAIN pre \ {old} : disk'[dir] = pre[dir]
                 /\ countFiles(disk') = countFiles(pre)]_vars

\* a split of three files has left one in the new shard and two behind
C22_Witness ==
    \E t \in Threads :
        /\ pc[t] = "cache"
        /\ Len(loc[t].files) = 3
        /\ shards[loc[t].sid + 1].count = 1
        /\ shards[loc[t].sid + 2].count = 2

\* C23: splitShard of a shard whose directory holds fewer than two files
\* returns nil and changes neither the shard index nor the data directory.
C23_SmallSplitNoOp ==
    [][\A t \in Threads :
          (/\ SplitMkdir(t)
           /\ shards[loc[t].sid + 1].maxKey \in DOMAIN disk
           /\ Cardinality(DOMAIN disk[shards[loc[t].sid + 1].maxKey]) < 2)
          => /\ disk' = disk
             /\ shards' = shards
             /\ res'[t].err \in {"none", "nil"}]_vars

\* the positions of a Put between creating the record file and the end of
\* the split
MidPut == {"write", "rename", "count", "split", "split_rename",
           "split_update"}

\* C24: with max_files_per_shard >= 1, outside the steps of a Put from the
\* creation of its file to the end of its split no shard directory holds
\* more than max_files_per_shard files; the shard that is split holds
\* max + 1 files, and the split leaves floor and ceiling of (max + 1) / 2.
C24_ShardSizeBound ==
    cfg.maxFiles >= 1 =>
        /\ (\A t \in Threads : pc[t] \notin MidPut) =>
              \A dir \in DOMAIN disk :
                 Cardinality(DOMAIN disk[dir]) <= cfg.maxFiles
        /\ \A t \in Threads :
              pc[t] = "split_update" =>
                 LET old == shards[loc[t].sid + 1].maxKey
                     half == (cfg.maxFiles + 1) \div 2
                     new == loc[t].files[Len(loc[t].files) \div 2]
                 IN  /\ Len(loc[t].files) = cfg.maxFiles + 1
                     /\ Cardinality(DOMAIN disk[new]) = half
                     /\ Cardinality(DOMAIN disk[old]) =
                            cfg.maxFiles + 1 - half

\* a Put has returned nil after splitting a shard of three files, and a
\* shard directory is as full as allowed
C24_Witness ==
    \E t \in Threads :
        /\ pc[t] = "ret" /\ op[t].kind = "Put" /\ res[t].err = "nil"
        /\ cfg.maxFiles = 2
        /\ Len(shards) = 2
        /\ \E dir \in DOMAIN disk : Cardinality(DOMAIN disk[dir]) = 2

\* the content of the file at path p of d
FileContent(d, p) == IF FileExists(d, p) THEN d[p.dir][p.name] ELSE Absent

\* C25: when the process stops at any step of WriteFile(path, data), the
\* target path holds its complete prior content (or does not exist, if it
\* did not before) or the complete new content.
C25_CrashAtomicity ==
    [][\A t \in Threads :
          (/\ CrashReopen
           /\ op[t].kind = "WriteFile"
           /\ pc[t] \in {"open", "write", "rename", "count"})
          => FileContent(disk', PathOf(t)) \in
                {FileContent(before.disk, PathOf(t)), op[t].val}]_vars

\* C26: every step of WriteFile(path, data, exclusive = true) on a target
\* that existed when it was called leaves the target's content unchanged,
\* and the call does not return nil.
C26_ExclusiveWrite ==
    [][\A t \in Threads :
          (/\ PutOpen(t) \/ PutWrite(t) \/ PutRename(t) \/ WriteFileDone(t)
           /\ op[t].kind = "WriteFile"
           /\ ~loc[t].updated
           /\ FileExists(before.disk, PathOf(t)))
          => /\ FileContent(disk', PathOf(t)) =
                   FileContent(before.disk, PathOf(t))
             /\ pc'[t] = "ret" => res'[t].err # "nil"]_vars

\* C27: Open of an existing store whose data directory lacks the sentinel
\* shard directory returns no DB: every DB that Open returns has the
\* sentinel shard, and with it a shard for the token of every key.
C27_SentinelChecked ==
    [][Reopen =>
          /\ sentinelDir \in DOMAIN disk
          /\ \A k \in AllKeys : keyPath(shards', k).ok]_vars

\* the record files an iteration of t visits before the name at its
\* position: those of the shards before, and the names before in its shard
VisitedBefore(t) ==
    LET asc == op[t].order = Asc
        k == loc[t].sid + 1
        b == loc[t].files[loc[t].i]
    IN  {f \in RecordFiles :
            /\ decodeOk(f[2])
            /\ \E j \in 1..Len(shards) :
                  /\ shards[j].maxKey = f[1]
                  /\ \/ IF asc THEN j < k ELSE j > k
                     \/ /\ j = k
                        /\ IF asc THEN StrLess(f[2], b) ELSE StrLess(b, f[2])}

\* what the callback is given for record file f
Reported(f) ==
    LET key == decodeKey(f[2])
    IN  <<key, IF key \in DOMAIN cache THEN cache[key] ELSE disk[f[1]][f[2]]>>

\* C28: an Items iteration that reaches a file whose name is not a key token
\* returns an error at that step, with no callback for that file and none
\* after it; the callback has been given exactly the records visited
\* before it.
C28_BadRecordName ==
    [][\A t \in Threads :
          (/\ ItemsFile(t)
           /\ loc[t].i <= Len(loc[t].files)
           /\ ~decodeOk(loc[t].files[loc[t].i]))
          => /\ pc'[t] = "ret"
             /\ res'[t].err \notin {"nil", "none"}
             /\ res'[t].out = res[t].out
             /\ Len(res'[t].out) = Cardinality(VisitedBefore(t))
             /\ {res'[t].out[x] : x \in DOMAIN res'[t].out} =
                   {Reported(f) : f \in VisitedBefore(t)}]_vars

\* an iteration has returned an error after reporting a record, and a
\* record it has not reported is stored
C28_Witness ==
    \E t \in Threads :
        /\ pc[t] = "ret" /\ op[t].kind = "Items"
        /\ res[t].err = "ErrBadName"
        /\ Len(res[t].out) >= 1
        /\ \E k \in cfg.keys :
              /\ \E dir \in DOMAIN disk : TokenOf[k] \in DOMAIN disk[dir]
              /\ \A x \in DOMAIN res[t].out : res[t].out[x][1] # k

\* what every step of a session does to the generation
GenerationSteps ==
    /\ md'.gen >= md.gen
    /\ \A t \in Procs :
          /\ Prep(t) =>
                md'.gen = IF tryLockOk /\ ~closed /\ md.gen = md.ckpt
                          THEN md.gen + 1 ELSE md.gen
          /\ (PutCount(t) \/ (Delete(t) /\ res'[t].err = "nil")) =>
                md'.gen = md.gen + 1
          /\ (\/ PutStat(t) \/ PutOpen(t) \/ PutWrite(t) \/ PutRename(t)
              \/ SplitStep(t) \/ PutCache(t)
              \/ (Delete(t) /\ res'[t].err # "nil")
              \/ Sync(t) \/ RLock(t) \/ ReadBody(t) \/ ItemsStep(t)) =>
                md'.gen = md.gen

\* n >= 1 mutations have returned nil on the fresh store, no Sync has run
\* and no mutation is in progress
Counted == muts.fresh /\ muts.n >= 1 /\ \A p \in Threads : ~Mutating(p)

\* C29: in a session the generation never decreases and the checkpoint
\* never exceeds it; the counting step of a Put and a Delete that returns
\* nil add exactly one, prepareForMutation adds one exactly when it gets the
\* lock of an open DB with generation = checkpoint, every other step of a
\* Put or Delete, Sync and the reads leave it unchanged; after n successful
\* mutations on a fresh store without Sync the generation is n + 1, and
\* after a following Close the persisted checkpoint and generation are
\* n + 1.
C29_Generation ==
    /\ [](md.ckpt <= md.gen)
    /\ [][~Reopen => GenerationSteps]_vars
    /\ [](Counted => md.gen = muts.n + 1)
    /\ []((Counted /\ closed /\ \A p \in Threads : pc[p] = "idle") =>
            (dmeta.ckpt = muts.n + 1 /\ dmeta.gen = muts.n + 1))

\* C30: no step of Has, Get, Len or Items changes a record file, the shard
\* index, the metadata in memory or on disk, or the cache; a value read from
\* the disk is not put into the cache.
C30_ReadsArePure ==
    [][\A t \in Threads :
          (CallRead(t) \/ RLock(t) \/ PointRead(t) \/ ItemsStep(t))
          => /\ disk' = disk
             /\ shards' = shards
             /\ md' = md
             /\ dmeta' = dmeta
             /\ cache' = cache]_vars

\* with the cache in use, a Get has returned a value that is not cached
C30_Witness ==
    \E t \in Threads :
        /\ pc[t] = "ret" /\ op[t].kind = "Get"
        /\ res[t].err = "nil" /\ res[t].val # Absent
        /\ cfg.cacheSize # 0
        /\ op[t].key \notin DOMAIN cache

\* C31: a cache built with max size N >= 1 never holds more than N entries,
\* and a Put of an absent key into a cache that holds N entries removes
\* exactly one of them and inserts the new entry, leaving the others as
\* they are.
C31_BoundedCache ==
    /\ [](cfg.cacheSize >= 1 => Cardinality(DOMAIN cache) <= cfg.cacheSize)
    /\ [][(/\ CachePut(1)
           /\ cfg.cacheSize >= 1
           /\ Cardinality(DOMAIN cache) = cfg.cacheSize
           /\ op'[1].key \notin DOMAIN cache)
          => /\ Cardinality(DOMAIN cache \ DOMAIN cache') = 1
             /\ DOMAIN cache' \subseteq DOMAIN cache \cup {op'[1].key}
             /\ op'[1].key \in DOMAIN cache'
             /\ cache'[op'[1].key] = op'[1].val
             /\ \A k \in DOMAIN cache' \ {op'[1].key} :
                   cache'[k] = cache[k]]_vars

\* a Put of an absent key into a full cache of two entries has been made
C31_Witness ==
    /\ op[1].kind = "CachePut"
    /\ cfg.cacheSize = MaxEntries
    /\ before.len = cfg.cacheSize
    /\ op[1].key \notin before.keys
    /\ Cardinality(DOMAIN cache) = cfg.cacheSize
    /\ cache[op[1].key] = op[1].val

\* C32: a Put of a key that is present in the random-eviction cache sets its
\* value and evicts nothing: every other entry is still there with its value
\* and the size is the same, also when the cache is at capacity.
C32_OverwriteInPlace ==
    [][(/\ CachePut(1)
        /\ cfg.cacheSize >= 1
        /\ op'[1].key \in DOMAIN cache)
       => /\ DOMAIN cache' = DOMAIN cache
          /\ cache'[op'[1].key] = op'[1].val
          /\ \A k \in DOMAIN cache \ {op'[1].key} :
                cache'[k] = cache[k]]_vars

\* C33: when Put returns an I/O error, the record files, the shard index
\* with its counts, total_entries, the generation and the cache are as they
\* were when Put was called.
C33_FailedPutChangesNothing ==
    \A t \in Threads :
        (pc[t] = "ret" /\ op[t].kind = "Put" /\ res[t].err = "ErrIO")
        => /\ disk = before.disk
           /\ shards = before.shards
           /\ md.total = before.mem.md.total
           /\ md.gen = before.mem.md.gen
           /\ cache = before.mem.cache

\* the record file of k is in the shard the index assigns to k and holds v
Backed(k, v) ==
    LET kp == keyPath(shards, k)
    IN  /\ kp.ok
        /\ FileExists(disk, kp.path)
        /\ disk[kp.path.dir][kp.path.name] = v

\* C34: whenever no operation is in progress, also after operations that
\* returned an I/O error, every entry (k, v) of the cache has its record
\* file in the shard the index assigns to k, with content v, so Get and Has
\* answer the same with and without the cache.
C34_CacheCoherence ==
    (\A t \in Threads : pc[t] = "idle")
    => /\ \A k \in DOMAIN cache : Backed(k, cache[k])
       /\ ~closed =>
            \A k \in cfg.keys :
               /\ getOpen(cache, shards, disk, k)
                     = getOpen(NoCache, shards, disk, k)
               /\ hasOpen(cache, shards, disk, k)
                     = hasOpen(NoCache, shards, disk, k)

\* C35: whenever Close returns success, the first call or a later one, also
\* after a Close whose final save failed, the persisted metadata has
\* generation == checkpoint and the total_entries held in memory, so the
\* next Open does not run recovery.
C35_CloseLeavesClean ==
    \A t \in Threads :
        (pc[t] = "ret" /\ op[t].kind = "Close" /\ res[t].err = "nil")
        => /\ dmeta.gen = dmeta.ckpt
           /\ dmeta.total = md.total
           /\ recovered(dmeta, disk) = dmeta

\* C36: when prepareForMutation fails to persist the metadata the call
\* returns the error with the record files and the generation and
\* checkpoint in memory as they were, and no step changes a record file
\* while the persisted metadata has generation == checkpoint.
C36_DirtyMarkRetried ==
    [][/\ \A t \in Threads :
             (pc[t] = "prep" /\ res'[t].err = "ErrSave")
             => /\ pc'[t] = "ret"
                /\ disk' = disk
                /\ md'.gen = md.gen
                /\ md'.ckpt = md.ckpt
       /\ disk' # disk => dmeta.gen # dmeta.ckpt]_vars

\* C37: a Put rejected with ErrKeyTooLarge leaves generation, checkpoint and
\* total_entries as they were, in memory and in the persisted metadata.
C37_RejectedPutFrame ==
    [][\A t \in Threads :
          (Prep(t) /\ res'[t].err = "ErrKeyTooLarge")
          => /\ md' = md
             /\ dmeta' = dmeta]_vars

\* C39: total_entries and the shard counts are never decremented below
\* zero, and Len() of an open DB is >= 0 in every state, also after a Put
\* that returned an I/O error and a Delete of the same key.
C39_CountsNeverWrap ==
    /\ md.total >= 0
    /\ \A i \in 1..Len(shards) : shards[i].count >= 0
    /\ ~closed => LenResult >= 0

\* C38: a read operation called by the callback of Items always returns,
\* also while another goroutine waits in Lock for the write lock.
C38_CallbackReadsReturn ==
    \A t \in Threads : (pc[t] = "cb_rlock") ~> (pc[t] = "items_file")

\* C40: without I/O faults every call returns what it returns without a
\* cache, under every cache policy and whatever entry the bounded cache
\* evicts: whenever a read can run, Get and Has of every key answer from
\* the cache what they answer from the disk, and every Get, Has and Items
\* that has returned has returned the records as they are on the disk.
C40_CacheTransparent ==
    /\ (~closed /\ Quiet) =>
          \A k \in cfg.keys :
             /\ getOpen(cache, shards, disk, k)
                   = getOpen(NoCache, shards, disk, k)
             /\ hasOpen(cache, shards, disk, k)
                   = hasOpen(NoCache, shards, disk, k)
    /\ \A t \in Threads :
          (pc[t] = "ret" /\ res[t].err = "nil")
          => /\ op[t].kind = "Get" =>
                   Ok(res[t].val) = getOpen(NoCache, shards, disk, op[t].key)
             /\ op[t].kind = "Has" =>
                   Ok(res[t].val) = hasOpen(NoCache, shards, disk, op[t].key)
             /\ op[t].kind = "Items" =>
                   /\ \A i \in 1..Len(res[t].out) :
                         Backed(res[t].out[i][1], res[t].out[i][2])
                   /\ {res[t].out[i][1] : i \in 1..Len(res[t].out)}
                         = StoredKeys
                   /\ Len(res[t].out) = countFiles(disk)

\* a Get has returned a stored value from the disk because the cache of two
\* entries, which is full, has evicted the key
C40_Witness ==
    \E t \in Threads :
        /\ pc[t] = "ret" /\ op[t].kind = "Get" /\ res[t].err = "nil"
        /\ res[t].val \in Values
        /\ cfg.cacheSize = MaxEntries
        /\ Cardinality(DOMAIN cache) = MaxEntries
        /\ op[t].key \notin DOMAIN cache

====
